---- MODULE Spec2Model ----
(***************************************************************************)
(* A model of rlox, a tree-walking interpreter for a Lox dialect.         *)
(*                                                                         *)
(* The pipeline of lib.rs (run: scan, parse, interpret) is modelled with   *)
(* recursive operators that follow the Rust functions one for one.  The    *)
(* state machine is the process: run_source evaluates one source and       *)
(* exits, run_prompt evaluates one line after the other against the same   *)
(* environment.                                                            *)
(*                                                                         *)
(* Rust values are modelled as records.  Option<T> is the value itself or  *)
(* the record None; Result<T, E> is a record with an ok / tag field; the   *)
(* `?` operator is the test that returns the error record unchanged.       *)
(***************************************************************************)
EXTENDS Integers, Sequences, FiniteSets, TLC

VARIABLES mode, status, exit_code, env, stdout, stderr, lines, input, log,
          scanner, scanned

vars == <<mode, status, exit_code, env, stdout, stderr, lines, input, log,
          scanner, scanned>>

(***************************************************************************)
(* expression.rs: Object, the runtime values.  Every Object is a record    *)
(* with the same fields; t is the variant, n / s / b / c its payload.      *)
(***************************************************************************)
None == [k |-> "None"]

NoCallable == [kind |-> "none", name |-> "", parameters |-> <<>>, body |-> <<>>]

Number(x) == [t |-> "Number", n |-> x, s |-> "", b |-> FALSE, c |-> NoCallable]

\* Number(f64::NAN): the one f64 of the model that is not an integer
NaN == [t |-> "Number", n |-> 0, s |-> "NaN", b |-> FALSE, c |-> NoCallable]

Str(x) == [t |-> "Str", n |-> 0, s |-> x, b |-> FALSE, c |-> NoCallable]

Bool(x) == [t |-> "Bool", n |-> 0, s |-> "", b |-> x, c |-> NoCallable]

Nil == [t |-> "Nil", n |-> 0, s |-> "", b |-> FALSE, c |-> NoCallable]

Callable(f) == [t |-> "Callable", n |-> 0, s |-> "", b |-> FALSE, c |-> f]

\* impl From<Object> for bool
into_bool(value) == ~((value.t = "Bool" /\ value.b = FALSE) \/ value.t = "Nil")

\* impl Not for Object
not(value) == ~into_bool(value)

\* a faulty eq for which Nil on the left equals Bool(false) on the right
eq_nil_is_false(a, b) ==
    CASE a.t = "Str" /\ b.t = "Str" -> a.s = b.s
      [] a.t = "Bool" /\ b.t = "Bool" -> a.b = b.b
      [] a.t = "Number" /\ b.t = "Number" -> a.n = b.n /\ a # NaN /\ b # NaN
      [] a.t = "Nil" /\ b.t = "Nil" -> TRUE
      [] a.t = "Nil" /\ b.t = "Bool" -> ~b.b
      [] OTHER -> FALSE

\* impl PartialEq for Object
eq(a, b) ==
    CASE a.t = "Str" /\ b.t = "Str" -> a.s = b.s
      [] a.t = "Bool" /\ b.t = "Bool" -> a.b = b.b
      [] a.t = "Number" /\ b.t = "Number" -> a.n = b.n /\ a # NaN /\ b # NaN
      [] a.t = "Nil" /\ b.t = "Nil" -> TRUE
      [] OTHER -> FALSE

(***************************************************************************)
(* expression.rs: Expression, and parser.rs / interpreter.rs: Stmt.  The   *)
(* variants that a single rule of the parser builds are records written    *)
(* in that rule.                                                           *)
(***************************************************************************)
Literal(object) == [k |-> "Literal", v |-> object]

Variable(name) == [k |-> "Variable", name |-> name]

Call(callee, arguments) == [k |-> "Call", callee |-> callee, arguments |-> arguments]

StmtExpr(e) == [k |-> "Expr", e |-> e]

StmtBlock(stmts) == [k |-> "Block", stmts |-> stmts]

StmtIf(condition, then_stmt, else_stmt) ==
    [k |-> "If", condition |-> condition, then_stmt |-> then_stmt, else_stmt |-> else_stmt]

StmtWhile(condition, body, increment) ==
    [k |-> "While", condition |-> condition, body |-> body, increment |-> increment]

StmtBreak == [k |-> "Break"]

StmtContinue == [k |-> "Continue"]

StmtReturn(e) == [k |-> "Return", e |-> e]

StmtFunction(name, parameters, body) ==
    [k |-> "Function", name |-> name, parameters |-> parameters, body |-> body]

(***************************************************************************)
(* scanner.rs: tokens.  A source is given as the sequence of its lexemes   *)
(* (the text between the white space); scan_token classifies one lexeme    *)
(* the way the scanner's match does, scan_tokens appends the EOF token.    *)
(***************************************************************************)
KEYWORDS ==
    [w \in {"and", "class", "else", "false", "for", "fun", "if", "nil", "or", "print",
            "return", "super", "this", "true", "var", "while", "break", "continue"} |->
        CASE w = "and" -> "And" [] w = "class" -> "Class" [] w = "else" -> "Else"
          [] w = "false" -> "False" [] w = "for" -> "For" [] w = "fun" -> "Fun"
          [] w = "if" -> "If" [] w = "nil" -> "Nil" [] w = "or" -> "Or"
          [] w = "print" -> "Print" [] w = "return" -> "Return" [] w = "super" -> "Super"
          [] w = "this" -> "This" [] w = "true" -> "True" [] w = "var" -> "Var"
          [] w = "while" -> "While" [] w = "break" -> "Break"
          [] w = "continue" -> "Continue"]

Punctuation ==
    [w \in {"(", ")", "{", "}", ",", ".", "-", "+", ";", "*", "/",
            "!", "!=", "=", "==", ">", ">=", "<", "<="} |->
        CASE w = "(" -> "LeftParen" [] w = ")" -> "RightParen" [] w = "{" -> "LeftBrace"
          [] w = "}" -> "RightBrace" [] w = "," -> "Comma" [] w = "." -> "Dot"
          [] w = "-" -> "Minus" [] w = "+" -> "Plus" [] w = ";" -> "Semicolon"
          [] w = "*" -> "Star" [] w = "/" -> "Slash" [] w = "!" -> "Bang"
          [] w = "!=" -> "BangEqual" [] w = "=" -> "Equal" [] w = "==" -> "EqualEqual"
          [] w = ">" -> "Greater" [] w = ">=" -> "GreaterEqual" [] w = "<" -> "Less"
          [] w = "<=" -> "LessEqual"]

\* the decimal lexemes of the model and the f64 that str::parse gives for them
Decimal == <<"0", "1", "2", "3", "4", "5", "6", "7", "8", "9">>

scan_token(lexeme) ==
    [type |-> CASE lexeme \in DOMAIN Punctuation -> Punctuation[lexeme]
                [] (\E i \in DOMAIN Decimal : Decimal[i] = lexeme) -> "Number"
                [] lexeme \in DOMAIN KEYWORDS -> KEYWORDS[lexeme]
                [] OTHER -> "Identifier",
     lexeme |-> lexeme]

add_eof_token == [type |-> "Eof", lexeme |-> ""]

scan_tokens(source) ==
    [i \in 1..(Len(source) + 1) |->
        IF i <= Len(source) THEN scan_token(source[i]) ELSE add_eof_token]

\* impl TryInto<Expression> for TokenType
try_into(token) ==
    CASE token.type = "Number" ->
            Literal(Number((CHOOSE i \in DOMAIN Decimal : Decimal[i] = token.lexeme) - 1))
      [] token.type = "False" -> Literal(Bool(FALSE))
      [] token.type = "Nil" -> Literal(Nil)
      [] token.type = "True" -> Literal(Bool(TRUE))

(***************************************************************************)
(* scanner.rs: positions.  Here a source is the sequence of its characters *)
(* and a scanner state s is the Scanner struct: source, stream (the index  *)
(* of the character that stream.next() yields), tokens, start, current,    *)
(* line and col.  A function of the scanner takes the state and returns    *)
(* the state it leaves with its result.  The characters are ASCII, for     *)
(* which the byte offsets that slice the source are character counts.      *)
(***************************************************************************)
\* Option<char>::None
NoChar == ""

is_ascii_digit(c) == c \in {"0", "1", "2", "3", "4", "5", "6", "7", "8", "9"}

is_ascii_alphabetic(c) ==
    c \in {"a", "b", "c", "d", "e", "f", "g", "h", "i", "j", "k", "l", "m", "n", "o", "p",
           "q", "r", "s", "t", "u", "v", "w", "x", "y", "z", "A", "B", "C", "D", "E", "F",
           "G", "H", "I", "J", "K", "L", "M", "N", "O", "P", "Q", "R", "S", "T", "U", "V",
           "W", "X", "Y", "Z"}

Scanner_new(source) ==
    [source |-> source, stream |-> 1, tokens |-> <<>>, start |-> 0, current |-> 0,
     line |-> 1, col |-> 1]

Scanner_peek(s) == IF s.stream <= Len(s.source) THEN s.source[s.stream] ELSE NoChar

\* fn advance: the character it returns is Scanner_peek of the state before
Scanner_advance(s) ==
    [s EXCEPT !.current = @ + 1,
              !.stream = IF Scanner_peek(s) = NoChar THEN @ ELSE @ + 1,
              !.line = IF Scanner_peek(s) = "\n" THEN @ + 1 ELSE @,
              !.col = IF Scanner_peek(s) = "\n" THEN 1 ELSE @ + 1]

Scanner_next_match(s, expected) ==
    IF Scanner_peek(s) = expected THEN [s |-> Scanner_advance(s), matched |-> TRUE]
    ELSE [s |-> s, matched |-> FALSE]

\* ScanError (absent)
NoScanError == [line |-> 0, col |-> 0, message |-> "", type |-> ""]

\* the outcomes of the functions of the scanner: Ok(TokenType) with tag "Ok" (the
\* f64 of a Number is not part of the model), Ok(()) without a token with tag
\* "Skip", Err(ScanError) with tag "Err", a Rust panic with tag "Panic"
ScanOk(s, type, literal) ==
    [s |-> s, tag |-> "Ok", type |-> type, literal |-> literal, err |-> NoScanError]

\* Ok(()) of scan_token without a token ("Skip"), a Rust panic ("Panic")
ScanEnd(s, tag) == [ScanOk(s, "", <<>>) EXCEPT !.tag = tag]

\* Err(self.error(type, message))
ScanErr(s, type, message) ==
    [ScanEnd(s, "Err") EXCEPT !.err = [line |-> s.line, col |-> s.col,
                                       message |-> message, type |-> type]]

\* self.source[self.start..self.current]
Scanner_lexeme(s) == SubSeq(s.source, s.start + 1, s.current)

RECURSIVE Scanner_string_while(_, _)
Scanner_string_while(s, str) ==
    IF Scanner_peek(s) = NoChar \/ Scanner_peek(s) = "\"" THEN [s |-> s, str |-> str]
    ELSE Scanner_string_while(Scanner_advance(s), Append(str, Scanner_peek(s)))

Scanner_string(s) ==
    LET w == Scanner_string_while(s, <<>>) IN
    IF Scanner_peek(w.s) = NoChar
    THEN ScanErr(w.s, "UnterminatedString", "missing \" delimiter")
    ELSE ScanOk(Scanner_advance(w.s), "String", w.str)

RECURSIVE Scanner_digits_while(_)
Scanner_digits_while(s) ==
    IF is_ascii_digit(Scanner_peek(s)) THEN Scanner_digits_while(Scanner_advance(s))
    ELSE s

Scanner_number(s) ==
    LET digits == Scanner_digits_while(s)
        dot == Scanner_advance(digits)
        next == IF Scanner_peek(dot) = NoChar THEN "a" ELSE Scanner_peek(dot)
    IN IF Scanner_peek(digits) = "."
       THEN IF ~is_ascii_digit(next)
            THEN ScanErr(Scanner_advance(dot), "InvalidNumber", "invalid decimal part")
            ELSE ScanOk(Scanner_digits_while(Scanner_advance(dot)), "Number", <<>>)
       ELSE ScanOk(digits, "Number", <<>>)

RECURSIVE Scanner_identifier_while(_)
Scanner_identifier_while(s) ==
    IF is_ascii_alphabetic(Scanner_peek(s))
    THEN Scanner_identifier_while(Scanner_advance(s))
    ELSE s

\* the lexeme chars as the key of KEYWORDS
RECURSIVE Joined(_)
Joined(chars) == IF chars = <<>> THEN "" ELSE Head(chars) \o Joined(Tail(chars))

Scanner_identifier(s) ==
    LET w == Scanner_identifier_while(s) IN
    IF Joined(Scanner_lexeme(w)) \in DOMAIN KEYWORDS
    THEN ScanOk(w, KEYWORDS[Joined(Scanner_lexeme(w))], <<>>)
    ELSE ScanOk(w, "Identifier", Scanner_lexeme(w))

\* the // comment: while let Some(c) = self.peek() { if c == '\n' { break } ... }
RECURSIVE Scanner_comment_while(_)
Scanner_comment_while(s) ==
    IF Scanner_peek(s) = NoChar \/ Scanner_peek(s) = "\n" THEN s
    ELSE Scanner_comment_while(Scanner_advance(s))

\* (first, the index in the source of the first character of the lexeme, is a ghost
\* field of the tokens)
\* fn add_token: `self.col - lexeme.len()` is a subtraction of usize.  When the
\* lexeme is longer than col it overflows: a build with overflow checks (the dev
\* and test profiles) panics, a build without them (the release profile) wraps
\* modulo 2^64, and the col of the token is then kept as the negative difference
\* d, which stands for 2^64 + d.
Scanner_add_token(r, overflow_checks) ==
    IF r.s.col < Len(Scanner_lexeme(r.s)) /\ overflow_checks THEN ScanEnd(r.s, "Panic")
    ELSE [r EXCEPT !.s.tokens =
              Append(@, [type |-> r.type, literal |-> r.literal,
                         lexeme |-> Scanner_lexeme(r.s), line |-> r.s.line,
                         col |-> r.s.col - Len(Scanner_lexeme(r.s)),
                         first |-> r.s.start + 1])]

Scanner_add_eof_token(s) ==
    [s EXCEPT !.tokens = Append(@, [type |-> "Eof", literal |-> <<>>, lexeme |-> <<>>,
                                    line |-> s.line, col |-> s.col,
                                    first |-> s.current + 1])]

\* the one or two character operators: if self.next_match('=') { .. } else { .. }
Scanner_operator(s, two, one) ==
    IF Scanner_next_match(s, "=").matched
    THEN ScanOk(Scanner_next_match(s, "=").s, two, <<>>)
    ELSE ScanOk(s, one, <<>>)

\* the match of scan_token on the character c that advance returned, s the state
\* after advance
Scanner_match(c, s) ==
    CASE c \in {"(", ")", "{", "}", ",", ".", "-", "+", ";", "*"} ->
            ScanOk(s, Punctuation[c], <<>>)
      [] c = "!" -> Scanner_operator(s, "BangEqual", "Bang")
      [] c = "=" -> Scanner_operator(s, "EqualEqual", "Equal")
      [] c = ">" -> Scanner_operator(s, "GreaterEqual", "Greater")
      [] c = "<" -> Scanner_operator(s, "LessEqual", "Less")
      [] c = "/" ->
            (IF Scanner_next_match(s, "/").matched
             THEN ScanEnd(Scanner_comment_while(Scanner_next_match(s, "/").s), "Skip")
             ELSE ScanOk(s, "Slash", <<>>))
      [] c \in {" ", "\r", "\t", "\n"} -> ScanEnd(s, "Skip")
      [] c = "\"" -> Scanner_string(s)
      [] is_ascii_digit(c) -> Scanner_number(s)
      [] is_ascii_alphabetic(c) -> Scanner_identifier(s)
      [] OTHER -> ScanErr(s, "UnexpectedCharacter", "unexpected symbol while parsing")

\* the outcome of scan_tokens so far, in a build with or without overflow checks
Scanning(overflow_checks) ==
    [tag |-> "scanning", err |-> NoScanError, overflow_checks |-> overflow_checks]

\* self.start = self.current; self.scan_token()
Scanner_scan_token(s, overflow_checks) ==
    LET r == Scanner_match(Scanner_peek(s), Scanner_advance([s EXCEPT !.start = s.current]))
    IN IF r.tag = "Ok" THEN Scanner_add_token(r, overflow_checks) ELSE r

(***************************************************************************)
(* parser.rs: the recursive-descent parser.  A parser state p is the       *)
(* Parser struct; every parse function takes the state and returns a       *)
(* ParseResult together with the state it leaves:                          *)
(*   [ok |-> TRUE, p, val]  or  [ok |-> FALSE, p, err |-> ParseError].     *)
(* parser.rs has no `return` statement; the pieces that parse it           *)
(* (return_statement and the enclosing_functions counter) follow the       *)
(* static rule of the specification, section 4.2.  The messages are the    *)
(* source's without their backquotes.                                      *)
(***************************************************************************)
MAX_PARAMETERS == 255

MAX_ARGUMENTS == 255

ParseError_new(token, message) == [token |-> token, message |-> message]

Ok(p, val) == [ok |-> TRUE, p |-> p, val |-> val, err |-> [token |-> add_eof_token, message |-> ""]]

Err(p, e) == [ok |-> FALSE, p |-> p, val |-> None, err |-> e]

Parser_new(tokens) ==
    [tokens |-> tokens, current |-> 0, enclosing_loops |-> 0, enclosing_functions |-> 0]

peek(p) == p.tokens[p.current + 1]

peek_type(p) == peek(p).type

advance(p) == IF peek_type(p) # "Eof" THEN [p EXCEPT !.current = @ + 1] ELSE p

previous(p) == p.tokens[p.current]

consume(p, token_type, message) ==
    IF peek_type(p) = token_type
    THEN Ok(advance(p), peek(advance(p)))
    ELSE Err(p, ParseError_new(peek(p), message))

consume_identifier(p, message) ==
    IF peek_type(p) = "Identifier"
    THEN Ok(advance(p), peek(p).lexeme)
    ELSE Err(p, ParseError_new(peek(p), message))

RECURSIVE synchronize_while(_)
synchronize_while(p) ==
    IF peek_type(p) = "Eof" THEN p
    ELSE IF previous(p).type = "Semicolon" THEN p
    ELSE IF peek_type(p) \in {"Class", "Fun", "Var", "For", "If", "While", "Print", "Return"}
         THEN p
         ELSE synchronize_while(advance(p))

synchronize(p) == synchronize_while(advance(p))

RECURSIVE rule(_, _), finish_call_while(_, _), unary(_), factor_while(_), term_while(_)
RECURSIVE comparison_while(_), equality_while(_), and_while(_), or_while(_)
RECURSIVE assignment(_), block_while(_, _), function_loop(_, _)

primary(p) ==
    LET token_type == peek_type(p)
        expr == rule("expression", <<advance(p)>>)
        c == consume(expr.p, "RightParen", "missing ) after expression")
    IN CASE token_type \in {"True", "False", "Nil", "Number", "String"} ->
               Ok(advance(p), try_into(peek(p)))
         [] token_type = "LeftParen" ->
               (IF ~expr.ok THEN expr ELSE IF ~c.ok THEN c ELSE Ok(c.p, [k |-> "Grouping", e |-> expr.val]))
         [] token_type = "Identifier" -> Ok(advance(p), Variable(peek(p).lexeme))
         [] OTHER -> Err(p, ParseError_new(peek(p), "unexpected token while parsing"))

\* one turn of `while self.peek_type() == TokenType::Comma { .. }` in finish_call.
\* A loop is the ParseResult r of what it has parsed so far, its val the vector
\* that it fills, and done, set once the loop is left.
finish_call_turn(l) ==
    LET p1 == advance(l.r.p)
        arg == rule("expression", <<p1>>)
    IN IF l.done \/ peek_type(l.r.p) # "Comma" THEN [l EXCEPT !.done = TRUE]
       ELSE IF Len(l.r.val) >= MAX_ARGUMENTS
       THEN [r |-> Err(p1, ParseError_new(peek(p1), "cannot have more than 255 arguments")),
             done |-> TRUE]
       ELSE IF ~arg.ok THEN [r |-> arg, done |-> TRUE]
       ELSE [r |-> Ok(arg.p, Append(l.r.val, arg.val)), done |-> FALSE]

\* the while loop of finish_call: the turns of the loop, of which there are no more
\* than tokens, as every turn advances, taken half by half until the loop is left
finish_call_while(l, turns) ==
    LET half == finish_call_while(l, turns \div 2) IN
    IF turns <= 1 THEN finish_call_turn(l)
    ELSE IF half.done THEN half
    ELSE finish_call_while(half, turns - turns \div 2)

\* finish_call once its arguments are parsed
finish_call_consume(arguments, callee) ==
    LET c == consume(arguments.p, "RightParen", "expected ) after arguments") IN
    IF ~arguments.ok THEN arguments
    ELSE IF ~c.ok THEN c ELSE Ok(c.p, Call(callee, arguments.val))

finish_call(p, callee) ==
    LET arg == rule("expression", <<p>>) IN
    IF peek_type(p) # "RightParen"
    THEN IF ~arg.ok THEN arg
         ELSE finish_call_consume(
                  finish_call_while([r |-> Ok(arg.p, <<arg.val>>), done |-> FALSE],
                                    Len(p.tokens) - p.current).r, callee)
    ELSE finish_call_consume(Ok(p, <<>>), callee)

\* call once primary has returned callee (a ParseResult: an error is returned as
\* it is, the ? operator)
call_primary(callee) ==
    IF ~callee.ok THEN callee
    ELSE IF peek_type(callee.p) = "LeftParen"
         THEN finish_call(advance(callee.p), callee.val)
         ELSE callee

call(p) == call_primary(primary(p))

unary(p) ==
    LET p1 == advance(p)
        op == previous(p1)
        right == unary(p1)
    IN IF peek_type(p) \in {"Minus", "Bang"}
       THEN IF ~right.ok THEN right ELSE Ok(right.p, [k |-> "Unary", op |-> op, right |-> right.val])
       ELSE call(p)

\* expr = Binary { left: expr, op: self.previous(), right } in the loops of factor,
\* term, comparison and equality, once the right operand is parsed
Binary_right(expr, right) ==
    IF right.ok
    THEN Ok(right.p, [k |-> "Binary", left |-> expr.val,
                      op |-> previous(advance(expr.p)), right |-> right.val])
    ELSE right

\* expr = Logical { left: expr, op: self.previous(), right } in the loops of and
\* and or
Logical_operand(expr, right) ==
    IF right.ok
    THEN Ok(right.p, [k |-> "Logical", left |-> expr.val,
                      op |-> previous(advance(expr.p)), right |-> right.val])
    ELSE right

factor_while(expr) ==
    IF expr.ok
    THEN IF peek_type(expr.p) \in {"Slash", "Star"}
         THEN factor_while(Binary_right(expr, unary(advance(expr.p))))
         ELSE expr
    ELSE expr

factor(p) == factor_while(unary(p))

term_while(expr) ==
    IF expr.ok
    THEN IF peek_type(expr.p) \in {"Minus", "Plus"}
         THEN term_while(Binary_right(expr, factor(advance(expr.p))))
         ELSE expr
    ELSE expr

term(p) == term_while(factor(p))

comparison_while(expr) ==
    IF expr.ok
    THEN IF peek_type(expr.p) \in {"Greater", "GreaterEqual", "Less", "LessEqual"}
         THEN comparison_while(Binary_right(expr, term(advance(expr.p))))
         ELSE expr
    ELSE expr

comparison(p) == comparison_while(term(p))

equality_while(expr) ==
    IF expr.ok
    THEN IF peek_type(expr.p) \in {"BangEqual", "EqualEqual"}
         THEN equality_while(Binary_right(expr, comparison(advance(expr.p))))
         ELSE expr
    ELSE expr

equality(p) == equality_while(comparison(p))

and_while(expr) ==
    IF expr.ok
    THEN IF peek_type(expr.p) = "And"
         THEN and_while(Logical_operand(expr, equality(advance(expr.p))))
         ELSE expr
    ELSE expr

and(p) == and_while(equality(p))

or_while(expr) ==
    IF expr.ok
    THEN IF peek_type(expr.p) = "Or"
         THEN or_while(Logical_operand(expr, and(advance(expr.p))))
         ELSE expr
    ELSE expr

or(p) == or_while(and(p))

assignment_value(expr, value) ==
    IF value.ok THEN Ok(value.p, [k |-> "Assign", name |-> expr.val.name, value |-> value.val])
    ELSE value

assignment_target(expr) ==
    IF expr.ok
    THEN IF peek_type(expr.p) = "Equal"
         THEN IF expr.val.k = "Variable"
              THEN assignment_value(expr, assignment(advance(expr.p)))
              ELSE Err(expr.p, ParseError_new(peek(expr.p), "invalid assignment target"))
         ELSE expr
    ELSE expr

assignment(p) == assignment_target(or(p))

expression(p) == assignment(p)

expr_statement(p) ==
    LET expr == rule("expression", <<p>>)
        c == consume(expr.p, "Semicolon", "expected ; after expression")
    IN IF ~expr.ok THEN expr ELSE IF ~c.ok THEN c ELSE Ok(c.p, StmtExpr(expr.val))

null_expression(p, delimiter, message) ==
    LET expr == rule("expression", <<p>>)
        c == consume(expr.p, delimiter, message)
    IN IF peek_type(p) = delimiter
       THEN Ok(advance(p), None)
       ELSE IF ~expr.ok THEN expr ELSE IF ~c.ok THEN c ELSE Ok(c.p, expr.val)

print_statement(p) ==
    LET expr == rule("expression", <<p>>)
        c == consume(expr.p, "Semicolon", "expected ; after value")
    IN IF ~expr.ok THEN expr ELSE IF ~c.ok THEN c ELSE Ok(c.p, [k |-> "Print", e |-> expr.val])

var_declaration(p) ==
    LET name == peek(p).lexeme
        p1 == advance(p)
        initializer == IF peek_type(p1) = "Equal"
                       THEN rule("expression", <<advance(p1)>>)
                       ELSE Ok(p1, None)
        c == consume(initializer.p, "Semicolon", "expected ; after variable declaration")
    IN IF peek_type(p) = "Identifier"
       THEN IF ~initializer.ok THEN initializer
            ELSE IF ~c.ok THEN c ELSE Ok(c.p, [k |-> "Var", name |-> name,
                                                initializer |-> initializer.val])
       ELSE Err(p, ParseError_new(peek(p), "expected variable name"))

\* the loop of block, then its consume of the closing brace
block_while(p, statements) ==
    LET d == rule("declaration", <<p>>)
        c == consume(p, "RightBrace", "expected } after block")
    IN IF peek_type(p) # "Eof" /\ peek_type(p) # "RightBrace"
       THEN IF ~d.ok THEN d ELSE block_while(d.p, Append(statements, d.val))
       ELSE IF ~c.ok THEN c ELSE Ok(c.p, statements)

block(p) == block_while(p, <<>>)

if_statement(p) ==
    LET c1 == consume(p, "LeftParen", "expected ( after if")
        condition == rule("expression", <<c1.p>>)
        c2 == consume(condition.p, "RightParen", "expected ) after if")
        then_stmt == rule("statement", <<c2.p>>)
        else_stmt == rule("statement", <<advance(then_stmt.p)>>)
    IN IF ~c1.ok THEN c1
       ELSE IF ~condition.ok THEN condition
       ELSE IF ~c2.ok THEN c2
       ELSE IF ~then_stmt.ok THEN then_stmt
       ELSE IF peek_type(then_stmt.p) # "Else"
            THEN Ok(then_stmt.p, StmtIf(condition.val, then_stmt.val, None))
       ELSE IF ~else_stmt.ok THEN else_stmt
       ELSE Ok(else_stmt.p, StmtIf(condition.val, then_stmt.val, else_stmt.val))

while_statement(p) ==
    LET c1 == consume(p, "LeftParen", "expected ( after while")
        condition == rule("expression", <<c1.p>>)
        c2 == consume(condition.p, "RightParen", "expected ) after while")
        stmt == rule("statement", <<c2.p>>)
    IN IF ~c1.ok THEN c1
       ELSE IF ~condition.ok THEN condition
       ELSE IF ~c2.ok THEN c2
       ELSE IF ~stmt.ok THEN stmt
       ELSE Ok(stmt.p, StmtWhile(condition.val, stmt.val, None))

\* the initializer clause of for_statement, once the parenthesis is consumed
for_initializer(p) ==
    CASE peek_type(p) = "Var" -> var_declaration(advance(p))
      [] peek_type(p) = "Semicolon" -> Ok(advance(p), None)
      [] OTHER -> expr_statement(advance(p))

\* for_statement once its three clauses are parsed: the body, then the block
\* that holds the initializer and the while loop
for_body(initializer, condition, increment) ==
    LET body == rule("statement", <<increment.p>>)
        statements == IF initializer.val # None THEN <<initializer.val>> ELSE <<>>
        while_body == IF increment.val # None
                      THEN <<body.val, StmtExpr(increment.val)>>
                      ELSE <<body.val>>
    IN IF ~increment.ok THEN increment
       ELSE IF ~body.ok THEN body
       ELSE Ok(body.p, StmtBlock(Append(statements,
                   StmtWhile(condition, StmtBlock(while_body), increment.val))))

\* for_statement from its condition clause on
for_clauses(initializer, cond) ==
    IF ~cond.ok THEN cond
    ELSE for_body(initializer,
                  IF cond.val = None THEN Literal(Bool(TRUE)) ELSE cond.val,
                  null_expression(cond.p, "RightParen", "expected ) after for clauses"))

\* for_statement from its initializer clause on
for_condition(initializer) ==
    IF ~initializer.ok THEN initializer
    ELSE for_clauses(initializer,
                     null_expression(initializer.p, "Semicolon",
                                     "expected ; after loop condition"))

for_statement(p) ==
    LET c1 == consume(p, "LeftParen", "expected ( after for") IN
    IF ~c1.ok THEN c1 ELSE for_condition(for_initializer(c1.p))

\* one turn of the `loop { .. }` of function (a loop as in finish_call_turn)
function_turn(l) ==
    LET parameter == consume_identifier(l.r.p, "expected parameter name")
        pushed == Append(l.r.val, parameter.val)
    IN IF l.done THEN l
       ELSE IF ~parameter.ok THEN [r |-> parameter, done |-> TRUE]
       ELSE IF Len(pushed) >= MAX_PARAMETERS
       THEN [r |-> Err(parameter.p, ParseError_new(previous(parameter.p),
                                                   "cannot have more than 255 parameters")),
             done |-> TRUE]
       ELSE IF peek_type(parameter.p) = "Comma"
       THEN [r |-> Ok(advance(parameter.p), pushed), done |-> FALSE]
       ELSE [r |-> Ok(parameter.p, pushed), done |-> TRUE]

\* the parameter loop of function: its turns, as in finish_call_while
function_loop(l, turns) ==
    LET half == function_loop(l, turns \div 2) IN
    IF turns <= 1 THEN function_turn(l)
    ELSE IF half.done THEN half
    ELSE function_loop(half, turns - turns \div 2)

\* function once its body is parsed
function_body(name, parameters, body) ==
    IF ~body.ok THEN body ELSE Ok(body.p, StmtFunction(name.val, parameters.val, body.val))

\* function from the closing parenthesis of its parameters on
function_block(name, parameters) ==
    LET c2 == consume(parameters.p, "RightParen", "expected ) after parameters")
        c3 == consume(c2.p, "LeftBrace", "expected { before function body")
    IN IF ~parameters.ok THEN parameters
       ELSE IF ~c2.ok THEN c2
       ELSE IF ~c3.ok THEN c3
       ELSE function_body(name, parameters, block(c3.p))

function(p, kind) ==
    LET name == consume_identifier(p, "expected function name")
        c1 == consume(name.p, "LeftParen", "expected ( after function name")
    IN IF ~name.ok THEN name
       ELSE IF ~c1.ok THEN c1
       ELSE function_block(name, IF peek_type(c1.p) # "RightParen"
                                 THEN function_loop([r |-> Ok(c1.p, <<>>), done |-> FALSE],
                                                    Len(p.tokens) - p.current).r
                                 ELSE Ok(c1.p, <<>>))

\* Stmt::Return of a parsed value
return_value(value) ==
    IF ~value.ok THEN value ELSE Ok(value.p, StmtReturn(value.val))

\* specification 4.2: returnStmt : "return" expression? ";", valid only inside a
\* function body
return_statement(p) ==
    IF p.enclosing_functions = 0
    THEN Err(p, ParseError_new(peek(p), "return outside function"))
    ELSE return_value(null_expression(advance(p), "Semicolon",
                                      "expected ; after return value"))

\* self.block().map(Stmt::Block)
map_Block(b) == IF ~b.ok THEN b ELSE Ok(b.p, StmtBlock(b.val))

\* self.enclosing_loops -= 1, once the loop statement is parsed
leave_loop(stmt) == [stmt EXCEPT !.p.enclosing_loops = @ - 1]

\* a faulty statement that does not count the loop down once it is parsed
statement_keeping_loop_count(p) ==
    LET token_type == peek_type(p)
    IN CASE token_type = "Print" -> print_statement(advance(p))
         [] token_type = "LeftBrace" -> map_Block(block(advance(p)))
         [] token_type = "If" -> if_statement(advance(p))
         [] token_type = "While" ->
               while_statement(advance([p EXCEPT !.enclosing_loops = @ + 1]))
         [] token_type = "For" ->
               for_statement(advance([p EXCEPT !.enclosing_loops = @ + 1]))
         [] token_type = "Break" ->
               (IF p.enclosing_loops = 0
                THEN Err(p, ParseError_new(peek(p), "break outside loop"))
                ELSE LET c == consume(advance(p), "Semicolon", "expected ; after break") IN
                     IF ~c.ok THEN c ELSE Ok(c.p, StmtBreak))
         [] token_type = "Continue" ->
               (IF p.enclosing_loops = 0
                THEN Err(p, ParseError_new(peek(p), "continue not properly in loop"))
                ELSE LET c == consume(advance(p), "Semicolon", "expected ; after continue") IN
                     IF ~c.ok THEN c ELSE Ok(c.p, StmtContinue))
         [] token_type = "Return" -> return_statement(p)
         [] OTHER -> expr_statement(p)

statement(p) ==
    LET token_type == peek_type(p)
    IN CASE token_type = "Print" -> print_statement(advance(p))
         [] token_type = "LeftBrace" -> map_Block(block(advance(p)))
         [] token_type = "If" -> if_statement(advance(p))
         [] token_type = "While" ->
               leave_loop(while_statement(advance([p EXCEPT !.enclosing_loops = @ + 1])))
         [] token_type = "For" ->
               leave_loop(for_statement(advance([p EXCEPT !.enclosing_loops = @ + 1])))
         [] token_type = "Break" ->
               (IF p.enclosing_loops = 0
                THEN Err(p, ParseError_new(peek(p), "break outside loop"))
                ELSE LET c == consume(advance(p), "Semicolon", "expected ; after break") IN
                     IF ~c.ok THEN c ELSE Ok(c.p, StmtBreak))
         [] token_type = "Continue" ->
               (IF p.enclosing_loops = 0
                THEN Err(p, ParseError_new(peek(p), "continue not properly in loop"))
                ELSE LET c == consume(advance(p), "Semicolon", "expected ; after continue") IN
                     IF ~c.ok THEN c ELSE Ok(c.p, StmtContinue))
         [] token_type = "Return" -> return_statement(p)
         [] OTHER -> expr_statement(p)

\* self.enclosing_functions -= 1, once the function is parsed: the Fun arm counts
\* the function bodies being parsed the way statement counts the loops
\* (specification 4.2, "same technique")
leave_function(f) == [f EXCEPT !.p.enclosing_functions = @ - 1]

\* statement.map_err(|e| { self.synchronize(); e })
map_err(stmt) == IF ~stmt.ok THEN [stmt EXCEPT !.p = synchronize(stmt.p)] ELSE stmt

\* a faulty declaration that does not count the function down once it is parsed
declaration_keeping_function_count(p) ==
    map_err(CASE peek_type(p) = "Var" -> var_declaration(advance(p))
              [] peek_type(p) = "Fun" ->
                    function(advance([p EXCEPT !.enclosing_functions = @ + 1]), "function")
              [] OTHER -> statement(p))

declaration(p) ==
    map_err(CASE peek_type(p) = "Var" -> var_declaration(advance(p))
              [] peek_type(p) = "Fun" ->
                    leave_function(function(
                        advance([p EXCEPT !.enclosing_functions = @ + 1]), "function"))
              [] OTHER -> statement(p))

\* expression, statement and declaration are the functions the others come back
\* to: they are called through rule, and rule(name, a) is the call name(a[1])
rule(name, a) ==
    CASE name = "expression" -> expression(a[1])
      [] name = "statement" -> statement(a[1])
      [] name = "declaration" -> declaration(a[1])

\* parse once declaration has returned d
RECURSIVE parse_while(_, _)
parse_push(d, statements) ==
    IF ~d.ok THEN d ELSE parse_while(d.p, Append(statements, d.val))

\* the while loop of parse
parse_while(p, statements) ==
    IF peek_type(p) # "Eof"
    THEN parse_push(rule("declaration", <<p>>), statements)
    ELSE Ok(p, statements)

parse(p) == parse_while(p, <<>>)

(***************************************************************************)
(* interpreter.rs: Environment, a Vec of frames; a frame maps a name to    *)
(* its slot, an Option<Object>.                                            *)
(***************************************************************************)
BuiltIns == {"clock", "print", "help", "exit", "quit", "type", "dir", "rand", "randint", "round"}

Environment_new ==
    <<[name \in BuiltIns |->
          Callable([kind |-> "builtin", name |-> name, parameters |-> <<>>, body |-> <<>>])]>>

\* the caller has checked last_mut(): the stack is not empty; HashMap::insert
define(e, name, value) ==
    [e EXCEPT ![Len(e)] = [n \in DOMAIN @ \cup {name} |-> IF n = name THEN value ELSE @[n]]]

\* the index of the innermost frame that holds name, 0 when there is none:
\* the frame where `for env in self.0.iter().rev()` stops
innermost(e, name) ==
    LET holding == {i \in 1..Len(e) : name \in DOMAIN e[i]} IN
    IF holding = {} THEN 0 ELSE CHOOSE i \in holding : \A j \in holding : j <= i

\* a faulty update that stores into the outermost frame that holds the name
update_outermost(e, name, value) ==
    LET holding == {i \in 1..Len(e) : name \in DOMAIN e[i]} IN
    IF holding = {} THEN [ok |-> FALSE, env |-> e]
    ELSE [ok |-> TRUE,
          env |-> [e EXCEPT ![CHOOSE i \in holding : \A j \in holding : i <= j][name] = value]]

update(e, name, value) ==
    LET i == innermost(e, name) IN
    IF i = 0 THEN [ok |-> FALSE, env |-> e]
    ELSE [ok |-> TRUE, env |-> [e EXCEPT ![i][name] = value]]

\* a faulty get that finds an empty slot for a name that no frame holds
get_undefined_as_uninitialized(e, name) ==
    LET i == innermost(e, name) IN
    IF i = 0 THEN [ok |-> TRUE, slot |-> None] ELSE [ok |-> TRUE, slot |-> e[i][name]]

get(e, name) ==
    LET i == innermost(e, name) IN
    IF i = 0 THEN [ok |-> FALSE, slot |-> None] ELSE [ok |-> TRUE, slot |-> e[i][name]]

\* a faulty enter_block that pushes no frame
enter_block_without_push(e) == e

enter_block(e) == Append(e, <<>>)

\* Vec::pop: nothing happens on an empty stack
exit_block(e) == IF Len(e) = 0 THEN e ELSE SubSeq(e, 1, Len(e) - 1)

(***************************************************************************)
(* The state threaded through evaluation: the environment, the two output  *)
(* streams, and log, a history of what evaluation did (it is not program   *)
(* state: it records the events the properties below speak about).         *)
(* An evaluation returns the state it leaves and its outcome:              *)
(*   tag "Ok" with v        Ok(object) of evaluate and call                *)
(*   tag "None"             Ok(None) of execute                            *)
(*   tag "Break" ...        Ok(Some(Signal)) of execute; e is the          *)
(*                          Option<Expression> of Signal::Return           *)
(*   tag "Err" with msg     Err(RuntimeError)                              *)
(*   tag "Panic"            a Rust panic, tag "Exit" process::exit(code)   *)
(***************************************************************************)
Note(st, event) == [st EXCEPT !.log = Append(@, event)]

NoSite == [tag |-> "None", v |-> Nil]

Res(st, tag) ==
    [st |-> st, tag |-> tag, v |-> Nil, e |-> None, objects |-> <<>>, site |-> NoSite,
     msg |-> "", code |-> 0]

Val(st, v) == [Res(st, "Ok") EXCEPT !.v = v]

RuntimeError(st, message) ==
    [Res(Note(st, [ev |-> "raise", msg |-> message]), "Err") EXCEPT !.msg = message]

Panic(st, message) ==
    [Res(Note(st, [ev |-> "panic", msg |-> message]), "Panic") EXCEPT !.msg = message]

Exit(st, code) == [Res(st, "Exit") EXCEPT !.code = code]

\* the outcomes that `?` hands to the caller, and those that end the process
Failed(r) == r.tag \in {"Err", "Panic", "Exit"}

Aborted(r) == r.tag \in {"Panic", "Exit"}

\* impl Display for Object
Display(object) ==
    CASE object.t = "Str" -> object.s
      [] object.t = "Number" -> IF object = NaN THEN "NaN" ELSE ToString(object.n)
      [] object.t = "Bool" -> IF object.b THEN "true" ELSE "false"
      [] object.t = "Nil" -> "nil"
      [] object.t = "Callable" -> "<fn " \o object.c.name \o ">"

println(st, text) == [st EXCEPT !.stdout = Append(@, text)]

eprintln(st, kind, message) ==
    [st EXCEPT !.stderr = Append(@, [kind |-> kind, message |-> message])]

\* impl Display for Expression reaches todo!() on Logical, Call, Get and Set
RECURSIVE to_string_todo(_)
to_string_todo(expr) ==
    CASE expr.k \in {"Literal", "Variable"} -> FALSE
      [] expr.k = "Unary" -> to_string_todo(expr.right)
      [] expr.k = "Binary" -> to_string_todo(expr.left) \/ to_string_todo(expr.right)
      [] expr.k = "Grouping" -> to_string_todo(expr.e)
      [] expr.k = "Assign" -> to_string_todo(expr.value)
      [] OTHER -> TRUE

(***************************************************************************)
(* expression.rs: Expression::evaluate.                                    *)
(***************************************************************************)
RECURSIVE dispatch(_, _)

evaluate_Unary(op, right, st) ==
    CASE op.type = "Bang" ->
            Val(Note(st, [ev |-> "not", operand |-> right,
                          result |-> Bool(into_bool(right))]),
                Bool(into_bool(right)))
      [] op.type = "Minus" ->
            (IF right.t = "Number"
             THEN Val(st, IF right = NaN THEN NaN ELSE Number(0 - right.n))
             ELSE RuntimeError(st, "unary operator - only works with numbers"))
      [] OTHER -> RuntimeError(st, "invalid token for unary expression")

\* the numbers of the model are the integer-valued f64 and NaN: a quotient is taken
\* where it is exact.  The model has no string lexeme, and the ordered comparisons of two
\* strings are not modelled.
evaluate_Binary(left, op, right, st) ==
    IF op.type = "EqualEqual" THEN Val(st, Bool(eq(left, right)))
    ELSE IF op.type = "BangEqual" THEN Val(st, Bool(~eq(left, right)))
    ELSE IF left.t = "Number" /\ right.t = "Number" /\ NaN \in {left, right}
    THEN CASE op.type \in {"Plus", "Minus", "Star"} -> Val(st, NaN)
           [] op.type = "Slash" ->
                 (IF right = Number(0) THEN RuntimeError(st, "division by zero")
                  ELSE Val(st, NaN))
           [] op.type \in {"Greater", "GreaterEqual", "Less", "LessEqual"} ->
                 Val(st, Bool(FALSE))
           [] OTHER -> RuntimeError(st, "unsupported operation between numbers")
    ELSE IF left.t = "Number" /\ right.t = "Number"
    THEN LET x == left.n
             y == right.n
         IN CASE op.type = "Plus" -> Val(st, Number(x + y))
              [] op.type = "Minus" -> Val(st, Number(x - y))
              [] op.type = "Slash" ->
                    (IF y = 0 THEN RuntimeError(st, "division by zero")
                     ELSE Val(st, Number(x \div y)))
              [] op.type = "Star" -> Val(st, Number(x * y))
              [] op.type = "Greater" -> Val(st, Bool(x > y))
              [] op.type = "GreaterEqual" -> Val(st, Bool(x >= y))
              [] op.type = "Less" -> Val(st, Bool(x < y))
              [] op.type = "LessEqual" -> Val(st, Bool(x <= y))
              [] OTHER -> RuntimeError(st, "unsupported operation between numbers")
    ELSE IF left.t = "Str" /\ right.t = "Str"
    THEN IF op.type = "Plus" THEN Val(st, Str(left.s \o right.s))
         ELSE RuntimeError(st, "unsupported operation between strings")
    ELSE IF left.t = "Str" /\ op.type = "Plus" /\ ~eq(right, Nil)
    THEN Val(st, Str(left.s \o Display(right)))
    ELSE IF op.type = "Plus" /\ right.t = "Str" /\ ~eq(left, Nil)
    THEN Val(st, Str(Display(left) \o right.s))
    ELSE RuntimeError(st, "unsupported operation between types")

\* Callable::arity of every implementation
arity(f) ==
    CASE f.kind = "fn" -> Len(f.parameters)
      [] f.kind = "builtin" /\ f.name \in {"clock", "quit", "dir", "rand"} -> 0
      [] f.kind = "builtin" /\ f.name \in {"print", "help", "exit", "type"} -> 1
      [] f.kind = "builtin" /\ f.name \in {"randint", "round"} -> 2
      [] OTHER -> 0

\* a faulty collect that evaluates the arguments from the last one to the first
evaluate_arguments_from_right(arguments, i, objects, st, enter) ==
    IF i > Len(arguments) THEN [Val(st, Nil) EXCEPT !.objects = objects]
    ELSE LET at == Len(arguments) + 1 - i
             arg == dispatch("evaluate",
                             <<arguments[at], Note(st, [ev |-> "argument", call |-> enter,
                                                        index |-> at])>>)
             noted == [arg EXCEPT !.st = Note(@, [ev |-> "argument_exit", call |-> enter,
                                                  index |-> at, tag |-> arg.tag])]
         IN IF Failed(arg) THEN noted
            ELSE dispatch("evaluate_arguments",
                          <<arguments, i + 1, <<arg.v>> \o objects, noted.st, enter>>)

\* arguments.iter().map(|arg| arg.evaluate(env)).collect::<Result<Vec<_>, _>>();
\* the history (ghost) records the start and the outcome of every argument of the
\* call noted at event enter
evaluate_arguments(arguments, i, objects, st, enter) ==
    IF i > Len(arguments) THEN [Val(st, Nil) EXCEPT !.objects = objects]
    ELSE LET arg == dispatch("evaluate",
                             <<arguments[i], Note(st, [ev |-> "argument", call |-> enter,
                                                       index |-> i])>>)
             noted == [arg EXCEPT !.st = Note(@, [ev |-> "argument_exit", call |-> enter,
                                                  index |-> i, tag |-> arg.tag])]
         IN IF Failed(arg) THEN noted
            ELSE dispatch("evaluate_arguments",
                          <<arguments, i + 1, Append(objects, arg.v), noted.st, enter>>)

\* (noted, in evaluate_Call, is the state with the history of the call: the callee
\* is a callable f, about to be called with the arguments of expr)
\* history of Call (ghost): the outcome r of the call noted at event enter, and the
\* environment before and after it
Call_exit(r, enter, before) ==
    [r EXCEPT !.st = Note(@, [ev |-> "called", call |-> enter, tag |-> r.tag,
                              before |-> before, after |-> r.st.env])]

\* a faulty Call that evaluates the arguments before it compares their number with
\* the arity
evaluate_Call_arguments_first(expr, st) ==
    LET callee == dispatch("evaluate", <<expr.callee, st>>)
        f == callee.v.c
        enter == Len(callee.st.log) + 1
        noted == Note(callee.st, [ev |-> "call", name |-> f.name, arity |-> arity(f),
                                  num_args |-> Len(expr.arguments)])
        objects == dispatch("evaluate_arguments", <<expr.arguments, 1, <<>>, noted, enter>>)
    IN IF to_string_todo(expr.callee) THEN Panic(st, "not yet implemented")
       ELSE IF Failed(callee) THEN callee
       ELSE IF callee.v.t # "Callable" THEN RuntimeError(callee.st, "is not callable")
       ELSE IF Failed(objects) THEN Call_exit(objects, enter, callee.st.env)
       ELSE IF Len(expr.arguments) # arity(f)
       THEN Call_exit(RuntimeError(objects.st, "wrong number of arguments"), enter,
                      callee.st.env)
       \* (history, ghost: the callable is invoked)
       ELSE Call_exit(dispatch("Callable_call",
                               <<f, objects.objects,
                                 Note(objects.st, [ev |-> "invoke", call |-> enter])>>),
                      enter, callee.st.env)

evaluate_Call(expr, st) ==
    LET callee == dispatch("evaluate", <<expr.callee, st>>)
        f == callee.v.c
        enter == Len(callee.st.log) + 1
        noted == Note(callee.st, [ev |-> "call", name |-> f.name, arity |-> arity(f),
                                  num_args |-> Len(expr.arguments)])
        objects == dispatch("evaluate_arguments", <<expr.arguments, 1, <<>>, noted, enter>>)
    IN IF to_string_todo(expr.callee) THEN Panic(st, "not yet implemented")
       ELSE IF Failed(callee) THEN callee
       ELSE IF callee.v.t # "Callable" THEN RuntimeError(callee.st, "is not callable")
       ELSE IF Len(expr.arguments) # arity(f)
       THEN Call_exit(RuntimeError(noted, "wrong number of arguments"), enter,
                      callee.st.env)
       ELSE IF Failed(objects) THEN Call_exit(objects, enter, callee.st.env)
       \* (history, ghost: the callable is invoked)
       ELSE Call_exit(dispatch("Callable_call",
                               <<f, objects.objects,
                                 Note(objects.st, [ev |-> "invoke", call |-> enter])>>),
                      enter, callee.st.env)

\* history of Logical (ghost): the values of the operands evaluated and the result
Logical_exit(r, expr, enter, left, right) ==
    [r EXCEPT !.st = Note(@, [ev |-> "logical_exit", logical |-> enter,
                              op |-> expr.op.type, left |-> left, right |-> right,
                              result |-> r.v])]

\* a faulty Logical that evaluates its right operand before it looks at the left
evaluate_Logical_eager(expr, st) ==
    LET enter == Len(st.log) + 1
        left == dispatch("evaluate", <<expr.left, Note(st, [ev |-> "logical"])>>)
        \* (history, ghost: the right operand is about to be evaluated)
        right == dispatch("evaluate",
                          <<expr.right, Note(left.st, [ev |-> "right", logical |-> enter,
                                                       op |-> expr.op.type,
                                                       left |-> left.v])>>)
    IN IF Failed(left) THEN left
       ELSE IF Failed(right) THEN right
       ELSE IF expr.op.type = "Or" /\ into_bool(left.v)
       THEN Logical_exit(Val(right.st, Bool(TRUE)), expr, enter, left.v, None)
       ELSE IF expr.op.type # "Or" /\ not(left.v)
       THEN Logical_exit(Val(right.st, Bool(FALSE)), expr, enter, left.v, None)
       ELSE Logical_exit(Val(right.st, Bool(into_bool(right.v))), expr, enter,
                         left.v, right.v)

evaluate_Logical(expr, st) ==
    LET enter == Len(st.log) + 1
        left == dispatch("evaluate", <<expr.left, Note(st, [ev |-> "logical"])>>)
        \* (history, ghost: the right operand is about to be evaluated)
        right == dispatch("evaluate",
                          <<expr.right, Note(left.st, [ev |-> "right", logical |-> enter,
                                                       op |-> expr.op.type,
                                                       left |-> left.v])>>)
    IN IF Failed(left) THEN left
       ELSE IF expr.op.type = "Or" /\ into_bool(left.v)
       THEN Logical_exit(Val(left.st, Bool(TRUE)), expr, enter, left.v, None)
       ELSE IF expr.op.type # "Or" /\ not(left.v)
       THEN Logical_exit(Val(left.st, Bool(FALSE)), expr, enter, left.v, None)
       ELSE IF Failed(right) THEN right
       ELSE Logical_exit(Val(right.st, Bool(into_bool(right.v))), expr, enter,
                         left.v, right.v)

evaluate(expr, st) ==
    CASE expr.k = "Literal" -> Val(st, expr.v)
      [] expr.k = "Unary" ->
            (LET right == dispatch("evaluate", <<expr.right, st>>) IN
             IF Failed(right) THEN right ELSE evaluate_Unary(expr.op, right.v, right.st))
      [] expr.k = "Binary" ->
            (LET left == dispatch("evaluate", <<expr.left, st>>) IN
             IF Failed(left) THEN left ELSE
             LET right == dispatch("evaluate", <<expr.right, left.st>>) IN
             IF Failed(right) THEN right
             ELSE evaluate_Binary(left.v, expr.op, right.v, right.st))
      [] expr.k = "Grouping" -> dispatch("evaluate", <<expr.e, st>>)
      [] expr.k = "Variable" ->
            (LET slot == get(st.env, expr.name)
                 r == IF ~slot.ok THEN RuntimeError(st, "name is not defined")
                      ELSE IF slot.slot = None
                      THEN RuntimeError(st, "variable used uninitialized")
                      ELSE Val(st, slot.slot)
             \* (history, ghost: the outcome of the read in the environment env)
             IN [r EXCEPT !.st = Note(@, [ev |-> "read", name |-> expr.name,
                                          env |-> st.env, tag |-> r.tag, msg |-> r.msg,
                                          v |-> r.v])])
      [] expr.k = "Assign" ->
            (LET eval == dispatch("evaluate", <<expr.value, st>>) IN
             IF Failed(eval) THEN eval ELSE
             LET updated == update(eval.st.env, expr.name, eval.v)
                 \* (history, ghost: the environment before and after update)
                 noted == Note([eval.st EXCEPT !.env = updated.env],
                               [ev |-> IF updated.ok THEN "update" ELSE "update_failed",
                                name |-> expr.name, value |-> eval.v,
                                frame |-> innermost(eval.st.env, expr.name),
                                before |-> eval.st.env, after |-> updated.env])
             IN IF ~updated.ok THEN RuntimeError(noted, "name is not defined")
                ELSE Val(noted, eval.v))
      [] expr.k = "Logical" -> evaluate_Logical(expr, st)
      [] expr.k = "Call" -> evaluate_Call(expr, st)

(***************************************************************************)
(* functions.rs: the callables.                                            *)
(***************************************************************************)
UserDefinedFunction_new(name, body, parameters) ==
    [kind |-> "fn", name |-> name, parameters |-> parameters, body |-> body]

\* self.parameters.iter().zip(objects).for_each(|(param, value)| env.define(..))
RECURSIVE define_parameters(_, _, _, _)
define_parameters(e, parameters, objects, i) ==
    IF i > Len(parameters) \/ i > Len(objects) THEN e
    ELSE define_parameters(define(e, parameters[i], objects[i]), parameters, objects, i + 1)

\* a faulty call that binds the parameters in the frame of the caller
UserDefinedFunction_call_binding_in_caller(f, objects, st) ==
    LET entered == [st EXCEPT !.env = enter_block(define_parameters(@, f.parameters,
                                                                    objects, 1))]
        signal == dispatch("interpret", <<f.body, entered>>)
        site == IF signal.tag = "Return" THEN signal.site ELSE NoSite
    IN IF Failed(signal) THEN signal
       ELSE IF signal.tag = "Return" /\ signal.e # None
       THEN LET eval == dispatch("evaluate", <<signal.e, signal.st>>) IN
            IF eval.tag = "Err" THEN [eval EXCEPT !.st.env = exit_block(@), !.site = site]
            ELSE IF Aborted(eval) THEN eval
            ELSE [Val([eval.st EXCEPT !.env = exit_block(@)], eval.v) EXCEPT !.site = site]
       ELSE [Val([signal.st EXCEPT !.env = exit_block(@)], Nil) EXCEPT !.site = site]

\* a faulty call that runs the body on the global frame alone, out of sight of the
\* frames of the caller
UserDefinedFunction_call_hiding_caller(f, objects, st) ==
    LET entered == [st EXCEPT !.env = define_parameters(enter_block(<<@[1]>>),
                                                        f.parameters, objects, 1)]
        signal == dispatch("interpret", <<f.body, entered>>)
        site == IF signal.tag = "Return" THEN signal.site ELSE NoSite
    IN IF Failed(signal) THEN signal
       ELSE IF signal.tag = "Return" /\ signal.e # None
       THEN LET eval == dispatch("evaluate", <<signal.e, signal.st>>) IN
            IF eval.tag = "Err"
            THEN [eval EXCEPT !.st.env = <<@[1]>> \o Tail(st.env), !.site = site]
            ELSE IF Aborted(eval) THEN eval
            ELSE [Val([eval.st EXCEPT !.env = <<@[1]>> \o Tail(st.env)], eval.v)
                     EXCEPT !.site = site]
       ELSE [Val([signal.st EXCEPT !.env = <<@[1]>> \o Tail(st.env)], Nil)
                EXCEPT !.site = site]

UserDefinedFunction_call(f, objects, st) ==
    LET entered == [st EXCEPT !.env = define_parameters(enter_block(@), f.parameters,
                                                        objects, 1)]
        signal == dispatch("interpret", <<f.body, entered>>)
        site == IF signal.tag = "Return" THEN signal.site ELSE NoSite
    IN IF Failed(signal) THEN signal
       ELSE IF signal.tag = "Return" /\ signal.e # None
       THEN LET eval == dispatch("evaluate", <<signal.e, signal.st>>) IN
            IF eval.tag = "Err" THEN [eval EXCEPT !.st.env = exit_block(@), !.site = site]
            ELSE IF Aborted(eval) THEN eval
            ELSE [Val([eval.st EXCEPT !.env = exit_block(@)], eval.v) EXCEPT !.site = site]
       ELSE [Val([signal.st EXCEPT !.env = exit_block(@)], Nil) EXCEPT !.site = site]

\* acc multiplied exp times by 10 in u32, half of the factors at a time: the product
\* modulo 2^32, kept as its two halves of 16 bits, and whether a multiplication has
\* overflowed 32 bits; a product that has wrapped to 0 stays 0
RECURSIVE u32_times_pow(_, _)
u32_times_pow(acc, exp) ==
    LET half == u32_times_pow(acc, exp \div 2)
        hi == acc.hi * 10 + (acc.lo * 10) \div 65536
    IN IF exp = 0 THEN acc
       ELSE IF exp = 1
       THEN [hi |-> hi % 65536, lo |-> (acc.lo * 10) % 65536,
             overflowed |-> acc.overflowed \/ hi >= 65536]
       ELSE IF half.hi = 0 /\ half.lo = 0 THEN half
       ELSE u32_times_pow(half, exp - exp \div 2)

\* Round::call on two numbers with precision.fract() == 0.0: `precision as u32`
\* saturates (a negative precision gives 0); u32::pow panics on overflow in a build
\* with overflow checks and wraps in a build without them; (value * pow).round() /
\* pow is value for the integers of the model unless pow is 0, and 0.0 / 0.0 is NaN
Round_call(value, precision, st) ==
    LET pow == u32_times_pow([hi |-> 0, lo |-> 1, overflowed |-> FALSE],
                             IF precision.n < 0 THEN 0 ELSE precision.n) IN
    IF pow.overflowed /\ st.overflow_checks
    THEN Panic(st, "attempt to multiply with overflow")
    ELSE IF pow.hi = 0 /\ pow.lo = 0 THEN Val(st, NaN)
    ELSE Val(st, value)

\* Exit, Quit, Clock, Type, Help, Rand, Randint, Round, Print, Dir.  clock and rand
\* give a number of their range, randint the low end of its range; the fract() of
\* NaN is NaN.
builtin_call(f, objects, st) ==
    CASE f.name = "exit" ->
            (IF objects[1].t = "Number" THEN Exit(st, objects[1].n)
             ELSE RuntimeError(st, "exit: expected an integer"))
      [] f.name = "quit" -> Exit(st, 0)
      [] f.name \in {"clock", "rand"} -> Val(st, Number(0))
      [] f.name = "type" -> Val(println(st, objects[1].t), Nil)
      [] f.name = "help" ->
            Val(println(st, IF objects[1].t = "Callable" THEN objects[1].c.name
                            ELSE "No documentation available"), Nil)
      [] f.name = "randint" ->
            (IF objects[1].t = "Number" /\ objects[2].t = "Number"
                /\ NaN \notin {objects[1], objects[2]}
             THEN IF objects[1].n <= objects[2].n THEN Val(st, objects[1])
                  ELSE Panic(st, "cannot sample empty range")
             ELSE RuntimeError(st, "randint: expected two integers arguments"))
      [] f.name = "round" ->
            (IF objects[1].t = "Number" /\ objects[2].t = "Number"
             THEN IF objects[2] = NaN
                  THEN RuntimeError(st, "round: precision must be an integer")
                  ELSE Round_call(objects[1], objects[2], st)
             ELSE RuntimeError(st, "round: arguments one number and one integer"))
      [] f.name = "print" -> Val(println(st, Display(objects[1])), Nil)
      [] f.name = "dir" -> Val(println(st, "dir"), Nil)

\* f.call(objects, env) on the Rc<dyn Callable>; the history records the entry and
\* the exit of every call of a user function
Callable_call(f, objects, st) ==
    CASE f.kind = "fn" ->
            (LET enter == Len(st.log) + 1
                 r == dispatch("UserDefinedFunction_call", <<f, objects,
                                               Note(st, [ev |-> "call_enter", name |-> f.name,
                                                         env |-> st.env])>>)
             IN [r EXCEPT !.st = Note(@, [ev |-> "call_exit", enter |-> enter,
                                          how |-> r.tag, v |-> r.v, site |-> r.site,
                                          before |-> st.env, after |-> r.st.env]),
                   !.site = NoSite])
      [] f.kind = "class" -> Val(st, Callable([f EXCEPT !.kind = "instance"]))
      [] f.kind = "instance" -> Panic(st, "not yet implemented")
      [] OTHER ->
            (LET r == builtin_call(f, objects, st) IN
             [r EXCEPT !.st = Note(@, [ev |-> "builtin", name |-> f.name,
                                       objects |-> objects, tag |-> r.tag, v |-> r.v])])

(***************************************************************************)
(* interpreter.rs: Interpreter::execute and Interpreter::interpret.        *)
(***************************************************************************)
\* for s in stmts { ... } env.exit_block();
execute_Block_for(stmts, i, st) ==
    IF i > Len(stmts) THEN Res([st EXCEPT !.env = exit_block(@)], "None")
    ELSE LET control == dispatch("execute", <<stmts[i], st>>) IN
         IF Failed(control) THEN control
         ELSE IF control.tag # "None" THEN [control EXCEPT !.st.env = exit_block(@)]
         ELSE dispatch("execute_Block_for", <<stmts, i + 1, control.st>>)

execute_Block(stmts, st) == dispatch("execute_Block_for", <<stmts, 1, [st EXCEPT !.env = enter_block(@)]>>)

\* a faulty Continue arm that evaluates the increment twice
execute_While_loop_increment_twice(stmt, id, st) ==
    LET condition == dispatch("evaluate", <<stmt.condition, Note(st, [ev |-> "cond", loop |-> id])>>) IN
    IF Failed(condition) THEN condition
    ELSE IF ~into_bool(condition.v) THEN Res(condition.st, "None")
    ELSE LET signal == dispatch("execute", <<stmt.body, condition.st>>) IN
         IF Failed(signal) THEN signal
         ELSE IF signal.tag = "None" THEN dispatch("execute_While_loop", <<stmt, id, signal.st>>)
         ELSE IF signal.tag = "Break" THEN Res(signal.st, "None")
         ELSE IF signal.tag = "Continue"
         THEN IF stmt.increment # None
              THEN LET increment == dispatch("evaluate", <<stmt.increment,
                                             Note(signal.st, [ev |-> "increment", loop |-> id])>>)
                       again == dispatch("evaluate", <<stmt.increment,
                                         Note(increment.st,
                                              [ev |-> "increment", loop |-> id])>>)
                   IN IF Failed(increment) THEN increment
                      ELSE IF Failed(again) THEN again
                      ELSE dispatch("execute_While_loop", <<stmt, id, again.st>>)
              ELSE dispatch("execute_While_loop", <<stmt, id, signal.st>>)
         ELSE signal

\* a faulty loop that hands a Break signal to its caller
execute_While_loop_break_propagates(stmt, id, st) ==
    LET condition == dispatch("evaluate", <<stmt.condition, Note(st, [ev |-> "cond", loop |-> id])>>) IN
    IF Failed(condition) THEN condition
    ELSE IF ~into_bool(condition.v) THEN Res(condition.st, "None")
    ELSE LET signal == dispatch("execute", <<stmt.body, condition.st>>) IN
         IF Failed(signal) THEN signal
         ELSE IF signal.tag = "None" THEN dispatch("execute_While_loop", <<stmt, id, signal.st>>)
         ELSE IF signal.tag = "Continue"
         THEN IF stmt.increment # None
              THEN LET increment == dispatch("evaluate", <<stmt.increment,
                                             Note(signal.st, [ev |-> "increment", loop |-> id])>>)
                   IN IF Failed(increment) THEN increment
                      ELSE dispatch("execute_While_loop", <<stmt, id, increment.st>>)
              ELSE dispatch("execute_While_loop", <<stmt, id, signal.st>>)
         ELSE signal

\* one turn of `while condition.evaluate(env)?.into() { ... }`; id names the loop
\* in the history
execute_While_loop(stmt, id, st) ==
    LET condition == dispatch("evaluate", <<stmt.condition, Note(st, [ev |-> "cond", loop |-> id])>>) IN
    IF Failed(condition) THEN condition
    ELSE IF ~into_bool(condition.v) THEN Res(condition.st, "None")
    ELSE LET signal == dispatch("execute", <<stmt.body, condition.st>>) IN
         IF Failed(signal) THEN signal
         ELSE IF signal.tag = "None" THEN dispatch("execute_While_loop", <<stmt, id, signal.st>>)
         ELSE IF signal.tag = "Break" THEN Res(signal.st, "None")
         ELSE IF signal.tag = "Continue"
         THEN IF stmt.increment # None
              THEN LET increment == dispatch("evaluate", <<stmt.increment,
                                             Note(signal.st, [ev |-> "increment", loop |-> id])>>)
                   IN IF Failed(increment) THEN increment
                      ELSE dispatch("execute_While_loop", <<stmt, id, increment.st>>)
              ELSE dispatch("execute_While_loop", <<stmt, id, signal.st>>)
         ELSE signal

execute_While(stmt, st) ==
    LET id == Len(st.log) + 1
        r == dispatch("execute_While_loop", <<stmt, id,
                                Note(st, [ev |-> "loop_enter", loop |-> id,
                                          increment |-> stmt.increment])>>)
    IN [r EXCEPT !.st = Note(@, [ev |-> "loop_exit", loop |-> id, how |-> r.tag])]

\* the value the expr of a `return` has where the stmt executes (history)
site_value(expr, st) ==
    IF expr = None THEN [tag |-> "Ok", v |-> Nil]
    ELSE LET eval == dispatch("evaluate", <<expr, st>>) IN [tag |-> eval.tag, v |-> eval.v]

\* parser.rs keeps the `print` statement (Stmt::Print) that interpreter.rs no longer
\* matches; it is executed as the specification describes the print facility: the
\* stringified value and a newline on stdout
execute_Print(stmt, st) ==
    LET eval == dispatch("evaluate", <<stmt.e, st>>) IN
    IF Failed(eval) THEN eval ELSE Res(println(eval.st, Display(eval.v)), "None")

\* history of Stmt::If (ghost): the value of the condition and the branch taken
Branch(condition, stmt, taken) ==
    Note(condition.st, [ev |-> "branch", value |-> condition.v,
                        has_else |-> stmt.else_stmt # None, taken |-> taken])

execute(stmt, st) ==
    LET noted == Note(st, [ev |-> "stmt", k |-> stmt.k, d |-> Len(st.env),
                           e |-> IF stmt.k = "Expr" THEN stmt.e ELSE None])
    IN
    CASE stmt.k = "Var" ->
            (LET eval == IF stmt.initializer # None
                         THEN dispatch("evaluate", <<stmt.initializer, noted>>)
                         ELSE Val(noted, None)
             IN IF Failed(eval) THEN eval
                ELSE IF Len(eval.st.env) = 0 THEN Panic(eval.st, "no environment were found")
                \* (history, ghost: the environment once the name is declared)
                ELSE Res(Note([eval.st EXCEPT !.env = define(@, stmt.name, eval.v)],
                              [ev |-> "declare", name |-> stmt.name,
                               initializer |-> stmt.initializer,
                               after |-> define(eval.st.env, stmt.name, eval.v)]),
                         "None"))
      [] stmt.k = "Function" ->
            (LET func == UserDefinedFunction_new(stmt.name, stmt.body,
                                                 stmt.parameters)
             IN IF Len(noted.env) = 0 THEN Panic(noted, "no environment were found")
                ELSE Res([noted EXCEPT !.env = define(@, stmt.name, Callable(func))],
                         "None"))
      [] stmt.k = "Block" ->
            (LET r == dispatch("execute_Block", <<stmt.stmts, noted>>) IN
             [r EXCEPT !.st = Note(@, [ev |-> "block_exit", enter |-> Len(st.log) + 1,
                                       how |-> r.tag,
                                       before |-> st.env, after |-> r.st.env])])
      [] stmt.k = "Expr" ->
            (LET eval == dispatch("evaluate", <<stmt.e, noted>>) IN
             IF Failed(eval) THEN eval ELSE Res(eval.st, "None"))
      [] stmt.k = "If" ->
            (LET condition == dispatch("evaluate", <<stmt.condition, noted>>) IN
             IF Failed(condition) THEN condition
             ELSE IF condition.v.t = "Bool" /\ condition.v.b
             THEN dispatch("execute", <<stmt.then_stmt, Branch(condition, stmt, "then")>>)
             ELSE IF stmt.else_stmt # None
             THEN dispatch("execute", <<stmt.else_stmt, Branch(condition, stmt, "else")>>)
             ELSE Res(Branch(condition, stmt, "none"), "None"))
      [] stmt.k = "Print" -> dispatch("execute_Print", <<stmt, noted>>)
      [] stmt.k = "While" -> dispatch("execute_While", <<stmt, noted>>)
      [] stmt.k = "Break" -> Res(noted, "Break")
      [] stmt.k = "Continue" -> Res(noted, "Continue")
      [] stmt.k = "Return" ->
            [Res(Note(noted, [ev |-> "return"]), "Return")
                EXCEPT !.e = stmt.e, !.site = dispatch("site_value", <<stmt.e, noted>>)]
      [] stmt.k = "Class" ->
            (IF Len(noted.env) = 0 THEN Panic(noted, "no environment were found")
             ELSE Res([noted EXCEPT !.env = define(@, stmt.name,
                                     Callable([kind |-> "class", name |-> stmt.name,
                                               parameters |-> <<>>, body |-> <<>>]))],
                      "None"))
      [] stmt.k = "Null" -> Res(noted, "None")

\* for stmt in stmts { match self.execute(stmt, env) { ... } }
interpret_for(stmts, i, st) ==
    IF i > Len(stmts) THEN Res(st, "None")
    ELSE LET exec == dispatch("execute", <<stmts[i], st>>) IN
         IF exec.tag = "Err"
         THEN dispatch("interpret_for", <<stmts, i + 1, eprintln(exec.st, "runtime error", exec.msg)>>)
         ELSE IF Aborted(exec) THEN exec
         ELSE IF exec.tag = "Return" THEN exec
         ELSE IF exec.tag \in {"Break", "Continue"} THEN Panic(exec.st, "internal error")
         ELSE dispatch("interpret_for", <<stmts, i + 1, exec.st>>)

interpret(stmts, st) == dispatch("interpret_for", <<stmts, 1, st>>)

\* evaluate, execute, interpret and call reach one another through dispatch:
\* dispatch(name, a) is the call name(a[1], ...)
dispatch(name, a) ==
    CASE name = "evaluate_arguments" -> evaluate_arguments(a[1], a[2], a[3], a[4], a[5])
      [] name = "evaluate" -> evaluate(a[1], a[2])
      [] name = "execute_Block_for" -> execute_Block_for(a[1], a[2], a[3])
      [] name = "execute_Block" -> execute_Block(a[1], a[2])
      [] name = "execute_While_loop" -> execute_While_loop(a[1], a[2], a[3])
      [] name = "execute_While" -> execute_While(a[1], a[2])
      [] name = "execute_Print" -> execute_Print(a[1], a[2])
      [] name = "execute" -> execute(a[1], a[2])
      [] name = "interpret_for" -> interpret_for(a[1], a[2], a[3])
      [] name = "interpret" -> interpret(a[1], a[2])
      [] name = "UserDefinedFunction_call" -> UserDefinedFunction_call(a[1], a[2], a[3])
      [] name = "Callable_call" -> Callable_call(a[1], a[2], a[3])
      [] name = "site_value" -> site_value(a[1], a[2])

(***************************************************************************)
(* lib.rs: run, run_source and run_prompt.  The programs are given as the  *)
(* sequences of their lexemes.                                             *)
(***************************************************************************)
\* the sources given to run_source
Sources ==
    <<
        \* nope ; var x = 1 ; print x ;
        <<"nope", ";", "var", "x", "=", "1", ";", "print", "x", ";">>,
        \* var x = 1 ; { var x = 2 ; nope ; } print x ;
        <<"var", "x", "=", "1", ";", "{", "var", "x", "=", "2", ";", "nope", ";", "}",
          "print", "x", ";">>,
        \* fun f ( ) { { nope ; } } f ( ) ; print 1 ;
        <<"fun", "f", "(", ")", "{", "{", "nope", ";", "}", "}", "f", "(", ")", ";",
          "print", "1", ";">>,
        \* fun f ( ) { nope ; return 1 ; } print f ( ) ;
        <<"fun", "f", "(", ")", "{", "nope", ";", "return", "1", ";", "}", "print", "f", "(", ")", ";">>,
        \* while ( true ) { fun f ( ) { break ; } f ( ) ; }
        <<"while", "(", "true", ")", "{", "fun", "f", "(", ")", "{", "break", ";", "}",
          "f", "(", ")", ";", "}">>,
        \* var i = 0 ; while ( i < 1 ) { i = i + 1 ; fun g ( ) { continue ; } g ( ) ; }
        <<"var", "i", "=", "0", ";", "while", "(", "i", "<", "1", ")", "{", "i", "=", "i",
          "+", "1", ";", "fun", "g", "(", ")", "{", "continue", ";", "}", "g", "(", ")",
          ";", "}">>,
        \* fun f ( ) { { var x = 1 ; return x ; } } print f ( ) ;
        <<"fun", "f", "(", ")", "{", "{", "var", "x", "=", "1", ";", "return", "x", ";",
          "}", "}", "print", "f", "(", ")", ";">>,
        \* var x = 5 ; fun f ( ) { { var x = 1 ; return x ; } } print f ( ) ;
        <<"var", "x", "=", "5", ";", "fun", "f", "(", ")", "{", "{", "var", "x", "=", "1",
          ";", "return", "x", ";", "}", "}", "print", "f", "(", ")", ";">>,
        \* fun f ( ) { for ( var i = 0 ; i < 3 ; i = i + 1 ) { if ( i == 1 ) return i ; } } print f ( ) ;
        <<"fun", "f", "(", ")", "{", "for", "(", "var", "i", "=", "0", ";", "i", "<", "3",
          ";", "i", "=", "i", "+", "1", ")", "{", "if", "(", "i", "==", "1", ")", "return",
          "i", ";", "}", "}", "print", "f", "(", ")", ";">>,
        \* fun f ( a ) { if ( a == 0 ) return ; return a + 1 ; } print f ( 1 ) ; print f ( 0 ) ; fun g ( ) { } print g ( ) ;
        <<"fun", "f", "(", "a", ")", "{", "if", "(", "a", "==", "0", ")", "return", ";",
          "return", "a", "+", "1", ";", "}", "print", "f", "(", "1", ")", ";",
          "print", "f", "(", "0", ")", ";", "fun", "g", "(", ")", "{", "}",
          "print", "g", "(", ")", ";">>,
        \* var x = 1 ; { var x = 2 ; { var x = 3 ; print x ; } print x ; } print x ;
        <<"var", "x", "=", "1", ";", "{", "var", "x", "=", "2", ";", "{", "var", "x", "=",
          "3", ";", "print", "x", ";", "}", "print", "x", ";", "}",
          "print", "x", ";">>,
        \* var x = 1 ; var a = 7 ; fun f ( a ) { var y = a ; x = 2 ; if ( a > 0 ) f ( a - 1 ) ; return y ; } f ( 1 ) ; print x ; print a ;
        <<"var", "x", "=", "1", ";", "var", "a", "=", "7", ";", "fun", "f", "(", "a", ")",
          "{", "var", "y", "=", "a", ";", "x", "=", "2", ";", "if", "(", "a", ">", "0",
          ")", "f", "(", "a", "-", "1", ")", ";", "return", "y", ";", "}", "f", "(", "1",
          ")", ";", "print", "x", ";", "print", "a", ";">>,
        \* for ( var i = 0 ; i < 3 ; i = i + 1 ) { if ( i == 1 ) continue ; print i ; }
        <<"for", "(", "var", "i", "=", "0", ";", "i", "<", "3", ";", "i", "=", "i", "+",
          "1", ")", "{", "if", "(", "i", "==", "1", ")", "continue", ";", "print", "i", ";", "}">>,
        \* var i = 0 ; while ( i < 2 ) { i = i + 1 ; var j = 0 ; while ( true ) { j = j + 1 ; if ( j == 2 ) break ; print j ; } print i ; }
        <<"var", "i", "=", "0", ";", "while", "(", "i", "<", "2", ")", "{", "i", "=", "i",
          "+", "1", ";", "var", "j", "=", "0", ";", "while", "(", "true", ")", "{", "j",
          "=", "j", "+", "1", ";", "if", "(", "j", "==", "2", ")", "break", ";", "print",
          "j", ";", "}", "print", "i", ";", "}">>,
        \* for ( var i = 0 ; i < 5 ; i = i + 1 ) { if ( i == 2 ) { break ; } print i ; } print 9 ;
        <<"for", "(", "var", "i", "=", "0", ";", "i", "<", "5", ";", "i", "=", "i", "+",
          "1", ")", "{", "if", "(", "i", "==", "2", ")", "{", "break", ";", "}", "print",
          "i", ";", "}", "print", "9", ";">>,
        \* break ;
        <<"break", ";">>,
        \* continue ;
        <<"continue", ";">>,
        \* while ( false ) { } break ;
        <<"while", "(", "false", ")", "{", "}", "break", ";">>,
        \* for ( var i = 0 ; i < 1 ; i = i + 1 ) { } continue ;
        <<"for", "(", "var", "i", "=", "0", ";", "i", "<", "1", ";", "i", "=", "i", "+",
          "1", ")", "{", "}", "continue", ";">>,
        \* fun f ( ) { break ; } f ( ) ;
        <<"fun", "f", "(", ")", "{", "break", ";", "}", "f", "(", ")", ";">>,
        \* exit ( 3 ) ; print 1 ;
        <<"exit", "(", "3", ")", ";", "print", "1", ";">>,
        \* return 1 ;
        <<"return", "1", ";">>,
        \* print 1 ; var x = @ ;
        <<"print", "1", ";", "var", "x", "=", "@", ";">>,
        \* var x = 0 ; fun f ( a ) { print a ; } f ( x = 1 , x = 2 ) ; f ( ) ; print x ;
        \* f ( x = 3 ) ; clock ( x = 4 ) ; print x ;
        <<"var", "x", "=", "0", ";", "fun", "f", "(", "a", ")", "{", "print", "a", ";",
          "}", "f", "(", "x", "=", "1", ",", "x", "=", "2", ")", ";", "f", "(", ")", ";",
          "print", "x", ";", "f", "(", "x", "=", "3", ")", ";", "clock", "(", "x", "=",
          "4", ")", ";", "print", "x", ";">>,
        \* var a = 0 ; print true or ( a = 1 ) ; print false and ( a = 2 ) ; print a ;
        \* print nil or 3 ; print 1 and ( a = nil ) ; print a ; print nil or nope ;
        <<"var", "a", "=", "0", ";", "print", "true", "or", "(", "a", "=", "1", ")", ";",
          "print", "false", "and", "(", "a", "=", "2", ")", ";", "print", "a", ";",
          "print", "nil", "or", "3", ";", "print", "1", "and", "(", "a", "=", "nil", ")",
          ";", "print", "a", ";", "print", "nil", "or", "nope", ";">>,
        \* print ! true ; print ! nil ; print ! 0 ; print ! ! clock ;
        <<"print", "!", "true", ";", "print", "!", "nil", ";", "print", "!", "0", ";",
          "print", "!", "!", "clock", ";">>,
        \* if ( 1 ) print 1 ; else print 2 ; if ( nil ) print 3 ; if ( clock ) print 4 ;
        <<"if", "(", "1", ")", "print", "1", ";", "else", "print", "2", ";",
          "if", "(", "nil", ")", "print", "3", ";", "if", "(", "clock", ")", "print", "4", ";">>,
        \* fun f ( ) { } return ;
        <<"fun", "f", "(", ")", "{", "}", "return", ";">>,
        \* var u ; print u ; u = 5 ; print u ; print nope ; { var u ; print u ; }
        <<"var", "u", ";", "print", "u", ";", "u", "=", "5", ";", "print", "u", ";",
          "print", "nope", ";", "{", "var", "u", ";", "print", "u", ";", "}">>,
        \* var x = 1 ; { var x = 2 ; { var y ; x = 3 ; print x ; } print x ; } print x ; nope = 1 ; print nope ;
        <<"var", "x", "=", "1", ";", "{", "var", "x", "=", "2", ";", "{", "var", "y", ";",
          "x", "=", "3", ";", "print", "x", ";", "}", "print", "x", ";", "}", "print", "x",
          ";", "nope", "=", "1", ";", "print", "nope", ";">>,
        \* var x = 0 ; fun f ( a , b , c ) { print a ; } f ( x = 1 , nope , x = 2 ) ; print
        \* x ; f ( x = 3 , x = x + 1 , x ) ; print x ; nope ( x = 7 ) ; print x ;
        <<"var", "x", "=", "0", ";", "fun", "f", "(", "a", ",", "b", ",", "c", ")", "{",
          "print", "a", ";", "}", "f", "(", "x", "=", "1", ",", "nope", ",", "x", "=", "2",
          ")", ";", "print", "x", ";", "f", "(", "x", "=", "3", ",", "x", "=", "x", "+",
          "1", ",", "x", ")", ";", "print", "x", ";", "nope", "(", "x", "=", "7", ")", ";",
          "print", "x", ";">>,
        \* print round ( 7 , 2 ) ; print round ( 7 , - 1 ) ; print round ( 7 , 9 ) ;
        \* print round ( 7 , 5 * 2 ) ; print round ( 7 , 8 * 4 ) ;
        <<"print", "round", "(", "7", ",", "2", ")", ";",
          "print", "round", "(", "7", ",", "-", "1", ")", ";",
          "print", "round", "(", "7", ",", "9", ")", ";",
          "print", "round", "(", "7", ",", "5", "*", "2", ")", ";",
          "print", "round", "(", "7", ",", "8", "*", "4", ")", ";">>,
        \* print round ( nil , 1 ) ; print randint ( 1 , nil ) ; print randint ( 1 , 1 ) ;
        \* print randint ( 2 , 1 ) ; print 1 ;
        <<"print", "round", "(", "nil", ",", "1", ")", ";",
          "print", "randint", "(", "1", ",", "nil", ")", ";",
          "print", "randint", "(", "1", ",", "1", ")", ";",
          "print", "randint", "(", "2", ",", "1", ")", ";", "print", "1", ";">>,
        \* var h ; { var y = 1 ; fun g ( ) { print y ; } h = g ; } h ( ) ;
        \* fun f ( ) { var y = 2 ; h ( ) ; } f ( ) ; { var y = 3 ; { var y = 4 ; h ( ) ; } }
        <<"var", "h", ";", "{", "var", "y", "=", "1", ";", "fun", "g", "(", ")", "{",
          "print", "y", ";", "}", "h", "=", "g", ";", "}", "h", "(", ")", ";",
          "fun", "f", "(", ")", "{", "var", "y", "=", "2", ";", "h", "(", ")", ";", "}",
          "f", "(", ")", ";", "{", "var", "y", "=", "3", ";", "{", "var", "y", "=", "4",
          ";", "h", "(", ")", ";", "}", "}">>,
        \* the empty file
        <<>>
    >>

\* statements that run_source is also given in sequence, one after the other
Parts ==
    <<
        \* var x = 1 ;
        <<"var", "x", "=", "1", ";">>,
        \* { var x = 2 ; nope ; }
        <<"{", "var", "x", "=", "2", ";", "nope", ";", "}">>,
        \* print x ;
        <<"print", "x", ";">>,
        \* while ( false ) { }
        <<"while", "(", "false", ")", "{", "}">>,
        \* break ;
        <<"break", ";">>,
        \* continue ;
        <<"continue", ";">>,
        \* for ( var i = 0 ; i < 2 ; i = i + 1 ) { if ( i == 0 ) continue ; x = i ; }
        <<"for", "(", "var", "i", "=", "0", ";", "i", "<", "2", ";", "i", "=", "i", "+",
          "1", ")", "{", "if", "(", "i", "==", "0", ")", "continue", ";", "x", "=", "i",
          ";", "}">>,
        \* var j = 0 ; while ( true ) { j = j + 1 ; { if ( j == 2 ) break ; } }
        <<"var", "j", "=", "0", ";", "while", "(", "true", ")", "{", "j", "=", "j", "+",
          "1", ";", "{", "if", "(", "j", "==", "2", ")", "break", ";", "}", "}">>,
        \* fun f ( a ) { x = a ; { var y = a ; return y ; } } f ( 3 ) ;
        <<"fun", "f", "(", "a", ")", "{", "x", "=", "a", ";", "{", "var", "y", "=", "a",
          ";", "return", "y", ";", "}", "}", "f", "(", "3", ")", ";">>,
        \* return ;
        <<"return", ";">>
    >>

\* the number of Parts in a source
MaxParts == 2

RECURSIVE Concat(_, _)
\* the source made of the parts chosen by the sequence of indices choice
Concat(choice, i) ==
    IF i > Len(choice) THEN <<>> ELSE Parts[choice[i]] \o Concat(choice, i + 1)

Composed == {Concat(choice, 1) : choice \in UNION {[1..n -> DOMAIN Parts] : n \in 2..MaxParts}}

\* the lines typed at the prompt of run_prompt
Lines ==
    <<
        \* var x = 1 ;
        <<"var", "x", "=", "1", ";">>,
        \* { var x = 2 ; nope ; }
        <<"{", "var", "x", "=", "2", ";", "nope", ";", "}">>,
        \* print x ;
        <<"print", "x", ";">>,
        \* x = x + 1 ;
        <<"x", "=", "x", "+", "1", ";">>,
        \* fun f ( ) { { nope ; } } f ( ) ;
        <<"fun", "f", "(", ")", "{", "{", "nope", ";", "}", "}", "f", "(", ")", ";">>,
        \* break ;
        <<"break", ";">>,
        \* quit ( ) ;
        <<"quit", "(", ")", ";">>,
        \* print @ ;
        <<"print", "@", ";">>,
        \* an empty line
        <<>>
    >>

\* the number of lines read by run_prompt
MaxLines == 3

ExitSuccess == 0

\* process::exit(65) of run_source
ExitScanError == 65

\* the exit status of a Rust process that panics
ExitPanic == 101

\* the arm of run's match for the outcome r of interpret
run_interpret(r) ==
    IF r.tag = "Err" THEN Exit(eprintln(r.st, "runtime error", r.msg), 1)
    ELSE IF Aborted(r) THEN r
    ELSE Res(r.st, "None")

\* match result { Ok(statements) => ..., Err(e) => eprintln!("{e}") }
run_match(result, st) ==
    IF result.ok THEN run_interpret(interpret(result.val, st))
    ELSE Res(eprintln(st, "parse error", result.err.message), "None")

\* a faulty run that evaluates each declaration as soon as it is parsed
RECURSIVE run_interleaved_loop(_, _)
run_interleaved_loop(p, st) ==
    IF peek_type(p) = "Eof" THEN Res(st, "None")
    ELSE LET d == rule("declaration", <<p>>)
             r == run_interpret(interpret(<<d.val>>, st))
         IN IF ~d.ok THEN run_match(d, st)
            ELSE IF Aborted(r) THEN r
            ELSE run_interleaved_loop(d.p, r.st)

run_interleaved(src, st) == run_interleaved_loop(Parser_new(scan_tokens(src)), st)

\* fn run(source, env) -> LoxResult<()>.  scanner.scan_tokens()?: the lexeme "@" is
\* the character that scan_token does not expect, for which scan_tokens returns a
\* ScanError (tag "Err") that run hands to its caller
run(src, st) ==
    IF \E i \in DOMAIN src : src[i] = "@"
    THEN [Res(st, "Err") EXCEPT !.msg = "unexpected symbol while parsing"]
    ELSE run_match(parse(Parser_new(scan_tokens(src))), st)

State ==
    [env |-> env, stdout |-> stdout, stderr |-> stderr, log |-> <<>>,
     overflow_checks |-> scanned.overflow_checks]

Init ==
    /\ mode \in {"file", "prompt"}
    /\ status = "running"
    /\ exit_code = -1
    /\ env = Environment_new
    /\ stdout = <<>>
    /\ stderr = <<>>
    /\ lines = 0
    /\ input = <<>>
    /\ log = <<>>
    /\ scanner = Scanner_new(<<>>)
    /\ scanned \in {Scanning(overflow_checks) : overflow_checks \in BOOLEAN}

\* the process once run has returned r: it has ended if run_source called run (ends),
\* if the evaluation panicked or if it called process::exit.  if let Err(e) = run(..):
\* both callers print the error, and run_source calls process::exit(65)
Ran(r, ends) ==
    /\ env' = r.st.env
    /\ stdout' = r.st.stdout
    /\ stderr' = IF r.tag = "Err" THEN eprintln(r.st, "scan error", r.msg).stderr
                 ELSE r.st.stderr
    /\ log' = r.st.log
    /\ status' = IF ends \/ Aborted(r) THEN "exited" ELSE "running"
    /\ exit_code' = IF r.tag = "Panic" THEN ExitPanic
                    ELSE IF r.tag = "Exit" THEN r.code
                    ELSE IF r.tag = "Err" /\ ends THEN ExitScanError
                    ELSE IF ends THEN ExitSuccess ELSE exit_code

\* run_source: one source evaluated against a new environment, then the process ends
RunSource(src) ==
    /\ mode = "file"
    /\ status = "running"
    /\ Ran(run(src, State), TRUE)
    /\ input' = src
    /\ UNCHANGED <<mode, lines, scanner, scanned>>

\* run_prompt: one turn of its loop, a line evaluated against the environment of
\* the session
RunPrompt(src) ==
    /\ mode = "prompt"
    /\ status = "running"
    /\ lines < MaxLines
    /\ Ran(run(src, State), FALSE)
    /\ lines' = lines + 1
    /\ input' = src
    /\ UNCHANGED <<mode, scanner, scanned>>

Next ==
    \/ \E src \in {Sources[i] : i \in DOMAIN Sources} \cup Composed : RunSource(src)
    \/ \E i \in DOMAIN Lines : RunPrompt(Lines[i])

Spec == Init /\ [][Next]_vars

(***************************************************************************)
(* Scanner::scan_tokens on its own, as the tests of tokens.rs call it: one *)
(* step per turn of its loop.                                              *)
(***************************************************************************)
\* the number of characters of a source
MaxSource == 4

\* the sources: the character sequences over a letter, a digit, the dot, the double
\* quote, the newline, the space, an operator, the slash and an unexpected character
ScanInit ==
    /\ mode = "scan"
    /\ status = "running"
    /\ exit_code = -1
    /\ env = Environment_new
    /\ stdout = <<>>
    /\ stderr = <<>>
    /\ lines = 0
    /\ input = <<>>
    /\ log = <<>>
    /\ scanner \in {Scanner_new(source) :
                       source \in UNION {[1..n -> {"a", "1", ".", "\"", "\n", " ", "=", "/", "@"}] :
                                            n \in 0..MaxSource}}
    /\ scanned \in {Scanning(overflow_checks) : overflow_checks \in BOOLEAN}

\* while self.peek().is_some() { self.start = self.current; self.scan_token()?; }
ScanToken ==
    /\ scanned.tag = "scanning"
    /\ Scanner_peek(scanner) # NoChar
    /\ LET r == Scanner_scan_token(scanner, scanned.overflow_checks) IN
       /\ scanner' = r.s
       /\ scanned' = IF r.tag \in {"Err", "Panic"}
                     THEN [scanned EXCEPT !.tag = r.tag, !.err = r.err]
                     ELSE scanned
    /\ UNCHANGED <<mode, status, exit_code, env, stdout, stderr, lines, input, log>>

\* self.add_eof_token(); Ok(())
AddEofToken ==
    /\ scanned.tag = "scanning"
    /\ Scanner_peek(scanner) = NoChar
    /\ scanner' = Scanner_add_eof_token(scanner)
    /\ scanned' = [scanned EXCEPT !.tag = "Ok"]
    /\ UNCHANGED <<mode, status, exit_code, env, stdout, stderr, lines, input, log>>

ScanSpec == ScanInit /\ [][ScanToken \/ AddEofToken]_vars

(***************************************************************************)
(* Parser::parse on its own, as the tests of grammar.rs call it: one step  *)
(* that parses the tokens of input and appends the ParseResult to log.     *)
(***************************************************************************)
\* the number of parameters of a declaration and of arguments of a call
MaxCount == 256

\* n times the lexeme, with commas in between
Listed(lexeme, n) == [i \in 1..(IF n = 0 THEN 0 ELSE 2 * n - 1) |->
                         IF i % 2 = 1 THEN lexeme ELSE ","]

\* the sources: fun f ( a , .. , a ) { } and f ( 1 , .. , 1 ) ; with n parameters
\* and n arguments, calls with several argument lists, and for statements with
\* every form of their clauses
ParseSources ==
    {<<"fun", "f", "(">> \o Listed("a", n) \o <<")", "{", "}">> : n \in 0..MaxCount}
    \cup {<<"f", "(">> \o Listed("1", n) \o <<")", ";">> : n \in 0..MaxCount}
    \* calls of the result of a call
    \cup {<<"f", "(", "2", ")", "(", "3", ")", ";">>,
          <<"f", "(", ")", "(", ")", "(", ")", ";">>,
          <<"f", "(", "2", ",", "3", ")", "(", ")", ";">>}
    \* for ( initializer condition ; increment ) body
    \cup {<<"for", "(">> \o initializer \o condition \o <<";">> \o increment \o <<")">>
              \o body :
          initializer \in {<<"var", "i", "=", "0", ";">>, <<"i", "=", "0", ";">>, <<";">>},
          condition \in {<<"i", "<", "2">>, <<>>},
          increment \in {<<"i", "=", "i", "+", "1">>, <<>>},
          body \in {<<"print", "i", ";">>, <<"{", "i", "=", "2", ";", "}">>}}

ParseInit ==
    /\ mode = "parse"
    /\ status = "running"
    /\ exit_code = -1
    /\ env = Environment_new
    /\ stdout = <<>>
    /\ stderr = <<>>
    /\ lines = 0
    /\ input \in ParseSources
    /\ log = <<>>
    /\ scanner = Scanner_new(<<>>)
    /\ scanned = Scanning(TRUE)

\* let result = parser.parse();
Parse ==
    /\ mode = "parse"
    /\ log = <<>>
    /\ LET result == parse(Parser_new(scan_tokens(input))) IN
       log' = <<[ev |-> "parsed", ok |-> result.ok, statements |-> result.val,
                 message |-> result.err.message]>>
    /\ UNCHANGED <<mode, status, exit_code, env, stdout, stderr, lines, input,
                   scanner, scanned>>

ParseSpec == ParseInit /\ [][Parse]_vars

(***************************************************************************)
(* Expression::evaluate on a Binary whose operands have been evaluated to  *)
(* the two objects of input: one step per comparison, whose operands and   *)
(* result are appended to log.                                             *)
(***************************************************************************)
\* the numbers among the objects
MaxNumber == 1

BinaryInit ==
    /\ mode = "binary"
    /\ status = "running"
    /\ exit_code = -1
    /\ env = Environment_new
    /\ stdout = <<>>
    /\ stderr = <<>>
    /\ lines = 0
    /\ \E a, b \in {Number(x) : x \in 0..MaxNumber} \cup {Str(x) : x \in {"", "a", "0"}}
                   \cup {Bool(x) : x \in BOOLEAN} \cup {Nil}
                   \cup {Environment_new[1][name] : name \in {"clock", "print"}}
                   \cup {Callable(UserDefinedFunction_new("f", <<>>, <<>>))} :
          input = <<a, b>>
    /\ log = <<>>
    /\ scanner = Scanner_new(<<>>)
    /\ scanned = Scanning(TRUE)

\* (left, op, right) => ..: the arms of == and != for the operands of input, in
\* their order or swapped
Compare(op, swapped) ==
    LET left == IF swapped THEN input[2] ELSE input[1]
        right == IF swapped THEN input[1] ELSE input[2]
        r == evaluate_Binary(left, [type |-> op, lexeme |-> ""], right, State)
    IN /\ mode = "binary"
       /\ ~\E j \in DOMAIN log : log[j].op = op /\ log[j].left = left /\ log[j].right = right
       /\ log' = Append(log, [ev |-> "binary", op |-> op, left |-> left, right |-> right,
                              tag |-> r.tag, v |-> r.v])
       /\ UNCHANGED <<mode, status, exit_code, env, stdout, stderr, lines, input,
                      scanner, scanned>>

BinarySpec ==
    BinaryInit /\ [][\E op \in {"EqualEqual", "BangEqual"}, swapped \in BOOLEAN :
                        Compare(op, swapped)]_vars

(***************************************************************************)
(* Properties.  log is the history of the unit evaluated last: its events  *)
(* are, in the order of evaluation,                                        *)
(*   stmt        a statement starts to execute (k its kind, d the depth)   *)
(*   raise       a runtime error is built          panic   the process dies*)
(*   update      an assignment stores into frame `frame`                   *)
(*   call_enter / call_exit, block_exit, loop_enter / loop_exit            *)
(*   cond        the condition of loop `loop` is tested                    *)
(*   increment   the Continue arm evaluates the increment of loop `loop`   *)
(*   return      a return statement executes                               *)
(* The exits carry the outcome (how) and the environment before and after. *)
(***************************************************************************)
\* the exits of blocks and of calls that return to their caller
Exits ==
    {i \in DOMAIN log : /\ log[i].ev \in {"block_exit", "call_exit"}
                        /\ log[i].how \notin {"Panic", "Exit"}}

\* C1: every block and every call of a user function leaves the environment stack
\* at the depth it found, on every exit path: fall-through, a Break / Continue /
\* Return signal, a runtime error.
C1_DepthBalanced == \A i \in Exits : Len(log[i].after) = Len(log[i].before)

\* C2: once a statement of a unit has raised a runtime error, no later statement of
\* the unit executes, and a call in whose body the error was raised does not return
\* a value.
C2_RuntimeErrorFatal ==
    \A i, j \in DOMAIN log :
        (i < j /\ log[i].ev = "raise") =>
            /\ log[j].ev # "stmt"
            /\ ~(log[j].ev = "call_exit" /\ log[j].how = "Ok" /\ log[j].enter < i)

\* C3: in a program the parser accepts no Break or Continue signal reaches the
\* statement loop of interpret, at top level or in a function body (interpret
\* panics with "internal error" when one does).
C3_SignalsConsumed ==
    \A i \in DOMAIN log : log[i].ev = "panic" => log[i].msg # "internal error"

\* C4: a call of a user function returns the value its return expression has where
\* the return statement executes (site), and Nil when the body falls through or the
\* return has no expression.
C4_ReturnValue ==
    \A i \in DOMAIN log :
        (log[i].ev = "call_exit" /\ log[i].how \notin {"Panic", "Exit"}) =>
            /\ log[i].site.tag = "None" => (log[i].how = "Ok" /\ log[i].v = Nil)
            /\ log[i].site.tag = "Ok" => (log[i].how = "Ok" /\ log[i].v = log[i].site.v)

\* the stack e holds the global frame at its bottom
HoldsGlobal(e) == Len(e) >= 1 /\ BuiltIns \subseteq DOMAIN e[1]

\* C5: the environment stack always holds at least one frame, the bottom one being
\* the global frame of start-up: after every block exit, call return and error
\* unwind of a unit, and between the lines of the prompt, where the global names
\* stay defined.
C5_GlobalFramePersists ==
    /\ [](/\ HoldsGlobal(env)
          /\ \A i \in DOMAIN log :
                log[i].ev \in {"block_exit", "call_exit"} => HoldsGlobal(log[i].after))
    /\ [][HoldsGlobal(env) /\ HoldsGlobal(env') => DOMAIN env[1] \subseteq DOMAIN env'[1]]_vars

\* C5 witness: at the prompt, after a line whose call and whose block were left by a
\* runtime error, with lines before it
C5_Witness ==
    /\ mode = "prompt"
    /\ lines >= 2
    /\ Len(env) > 1
    /\ \E i \in DOMAIN log : log[i].ev = "block_exit" /\ log[i].how = "Err"
    /\ \E i \in DOMAIN log : log[i].ev = "call_exit"

\* what a read of name gives in the stack e
Resolve(e, name) == get(e, name)

Names(e) == UNION {DOMAIN e[f] : f \in DOMAIN e}

\* an assignment to name between the events from and to
Assigned(name, from, to) ==
    \E u \in from..to : log[u].ev = "update" /\ log[u].name = name

\* C6: a declaration inside a block shadows an outer one only until the block exits:
\* after the exit every name resolves as before the block, to the value it had,
\* unless the block assigned it.
C6_ShadowingEndsWithBlock ==
    \A i \in DOMAIN log :
        (log[i].ev = "block_exit" /\ log[i].how \notin {"Panic", "Exit"}) =>
            \A name \in Names(log[i].before) \cup Names(log[i].after) :
                \/ Resolve(log[i].after, name) = Resolve(log[i].before, name)
                \/ Assigned(name, log[i].enter, i)

\* C7: after a call of a user function has returned normally, every frame that was
\* there before the call holds the same names, and the same values except where an
\* assignment of the body stored into that frame.
C7_CallPreservesFrames ==
    \A i \in DOMAIN log :
        (log[i].ev = "call_exit" /\ log[i].how = "Ok") =>
            /\ Len(log[i].after) >= Len(log[i].before)
            /\ \A f \in DOMAIN log[i].before :
                  /\ DOMAIN log[i].after[f] = DOMAIN log[i].before[f]
                  /\ \A name \in DOMAIN log[i].before[f] :
                        \/ log[i].after[f][name] = log[i].before[f][name]
                        \/ \E u \in log[i].enter..i :
                              /\ log[u].ev = "update"
                              /\ log[u].name = name
                              /\ log[u].frame = f

\* C7 witness: a call has returned normally around a recursive activation of the same
\* function; the global a, named like the parameter, kept its value and the global
\* x was assigned by the body
C7_Witness ==
    \E i \in DOMAIN log :
        /\ log[i].ev = "call_exit" /\ log[i].how = "Ok"
        /\ \E j \in log[i].enter + 1..i :
              log[j].ev = "call_enter" /\ log[j].name = log[log[i].enter].name
        /\ "a" \in DOMAIN log[i].before[1]
        /\ log[i].after[1]["a"] = log[i].before[1]["a"]
        /\ "x" \in DOMAIN log[i].before[1]
        /\ log[i].after[1]["x"] # log[i].before[1]["x"]

\* the loops and the calls entered and not yet left when event j happens
OpenLoops(j) ==
    {l \in 1..(j - 1) : /\ log[l].ev = "loop_enter"
                        /\ ~\E x \in (l + 1)..(j - 1) :
                              log[x].ev = "loop_exit" /\ log[x].loop = l}

OpenCalls(j) ==
    {c \in 1..(j - 1) : /\ log[c].ev = "call_enter"
                        /\ ~\E x \in (c + 1)..(j - 1) :
                              log[x].ev = "call_exit" /\ log[x].enter = c}

Max(S) == CHOOSE x \in S : \A y \in S : y <= x

\* the innermost loop that encloses event j in the function activation of j, 0 when
\* there is none
InnermostLoop(j) ==
    IF OpenLoops(j) = {} THEN 0
    ELSE LET l == Max(OpenLoops(j)) IN
         IF \E c \in OpenCalls(j) : c > l THEN 0 ELSE l

\* the first event after j that is not the exit of a block, 0 when there is none
NextStep(j) ==
    LET later == {x \in (j + 1)..Len(log) : log[x].ev # "block_exit"} IN
    IF later = {} THEN 0 ELSE CHOOSE x \in later : \A y \in later : x <= y

\* event j evaluates the increment of the for loop l: in the Continue arm, or as the
\* statement that for_statement appends to the body
EvaluatesIncrement(j, l) ==
    \/ log[j].ev = "increment" /\ log[j].loop = l
    \/ /\ log[j].ev = "stmt"
       /\ log[j].k = "Expr"
       /\ log[j].e = log[l].increment
       /\ InnermostLoop(j) = l

ForLoops == {l \in DOMAIN log : log[l].ev = "loop_enter" /\ log[l].increment # None}

\* two consecutive tests of the condition of loop l
ConsecutiveTests(l, c1, c2) ==
    /\ c1 < c2
    /\ log[c1].ev = "cond" /\ log[c1].loop = l
    /\ log[c2].ev = "cond" /\ log[c2].loop = l
    /\ ~\E c \in (c1 + 1)..(c2 - 1) : log[c].ev = "cond" /\ log[c].loop = l

\* C8: in a for loop the increment is evaluated exactly once between two consecutive
\* tests of the condition, whether the body completed or ended the iteration with
\* continue; after a continue nothing of the body executes before the increment.
C8_IncrementOncePerIteration ==
    \A l \in ForLoops :
        /\ \A c1, c2 \in DOMAIN log :
              ConsecutiveTests(l, c1, c2) =>
                  Cardinality({j \in c1..c2 : EvaluatesIncrement(j, l)}) = 1
        /\ \A j \in DOMAIN log :
              (log[j].ev = "stmt" /\ log[j].k = "Continue" /\ InnermostLoop(j) = l) =>
                  /\ NextStep(j) # 0
                  /\ log[NextStep(j)].ev = "increment"
                  /\ log[NextStep(j)].loop = l

\* C8 witness: a for loop has ended after an iteration that completed and an
\* iteration that ended with continue
C8_Witness ==
    \E l \in ForLoops :
        /\ \E x \in DOMAIN log : log[x].ev = "loop_exit" /\ log[x].loop = l
        /\ \E j \in DOMAIN log : log[j].ev = "increment" /\ log[j].loop = l
        /\ \E j \in DOMAIN log :
              log[j].ev = "stmt" /\ log[j].k = "Expr" /\ EvaluatesIncrement(j, l)
        /\ \E c1, c2 \in DOMAIN log :
              /\ ConsecutiveTests(l, c1, c2)
              /\ \E j \in c1..c2 : log[j].ev = "stmt" /\ log[j].k = "Continue"

\* the break statements executed inside a loop of their function activation
Breaks ==
    {j \in DOMAIN log : log[j].ev = "stmt" /\ log[j].k = "Break" /\ InnermostLoop(j) # 0}

\* C9: when break executes in a loop body, nothing more of the iteration executes and
\* neither the condition nor the increment is evaluated again: the next step is the
\* normal end of the innermost enclosing loop, and only of that loop, an outer loop
\* going on with what follows.
C9_BreakEndsInnermostLoop ==
    \A j \in Breaks :
        LET x == NextStep(j) IN
        /\ x # 0
        /\ log[x].ev = "loop_exit"
        /\ log[x].loop = InnermostLoop(j)
        /\ log[x].how = "None"
        /\ \A b \in (j + 1)..(x - 1) : log[b].how = "Break"
        /\ x < Len(log) => log[x + 1].ev # "loop_exit"

\* C9 witness: break has ended the inner of two loops; the outer loop executed the
\* statement after the inner loop and tested its condition again
C9_Witness ==
    \E j \in Breaks :
        LET x == NextStep(j)
            inner == InnermostLoop(j)
        IN \E outer \in OpenLoops(j) \ {inner} :
              /\ log[x].ev = "loop_exit" /\ log[x].loop = inner
              /\ log[x + 1].ev = "stmt"
              /\ \E c \in (x + 1)..Len(log) : log[c].ev = "cond" /\ log[c].loop = outer

\* the number of lexemes equal to lexeme before the lexeme i of src
Count(src, i, lexeme) == Cardinality({x \in 1..(i - 1) : src[x] = lexeme})

\* a statement starts at the lexeme i of src outside every brace and parenthesis:
\* the statement before it is complete, and so is any loop it belongs to
StartsAtTopLevel(src, i) ==
    /\ Count(src, i, "{") = Count(src, i, "}")
    /\ Count(src, i, "(") = Count(src, i, ")")
    /\ i = 1 \/ src[i - 1] \in {";", "}"}

\* the break and continue lexemes of src that no while / for encloses: those at top
\* level and those that no loop keyword precedes
Stray(src) ==
    {i \in DOMAIN src :
        /\ src[i] \in {"break", "continue"}
        /\ \/ StartsAtTopLevel(src, i)
           \/ ~\E w \in 1..(i - 1) : src[w] \in {"while", "for"}}

StrayMessage(lexeme) ==
    IF lexeme = "break" THEN "break outside loop" ELSE "continue not properly in loop"

\* C10: a unit with a break or continue that no loop encloses, also right after a
\* complete loop, is rejected by the parser: nothing of it executes and the parse
\* error is written to stderr, the one of the statement when what precedes it
\* parses.
C10_StrayBreakRejected ==
    Stray(input) # {} =>
        /\ log = <<>>
        /\ stderr # <<>>
        /\ stderr[Len(stderr)].kind = "parse error"
        /\ LET i == CHOOSE x \in Stray(input) : \A y \in Stray(input) : x <= y IN
           (/\ StartsAtTopLevel(input, i)
            /\ parse(Parser_new(scan_tokens(SubSeq(input, 1, i - 1)))).ok) =>
               stderr[Len(stderr)].message = StrayMessage(input[i])

\* C10 witness: a break or continue that follows a complete loop has been rejected
C10_Witness ==
    /\ \E i \in Stray(input) :
          /\ i > 1
          /\ input[i - 1] = "}"
          /\ \E w \in 1..(i - 1) : input[w] \in {"while", "for"}
          /\ stderr # <<>>
          /\ stderr[Len(stderr)] =
                [kind |-> "parse error", message |-> StrayMessage(input[i])]
    /\ log = <<>>

\* the return lexemes of src that start a statement outside every brace, hence
\* outside every function body
ReturnsAtTopLevel(src) ==
    {i \in DOMAIN src : src[i] = "return" /\ StartsAtTopLevel(src, i)}

Truthy(v) == ~(v.t = "Nil" \/ (v.t = "Bool" /\ ~v.b))

\* C12: an if statement executes its then-branch iff its condition evaluates to a
\* truthy value (a number, a string and a callable are truthy); otherwise it
\* executes its else-branch when it has one and nothing when it has none.
C12_IfTruthy ==
    \A j \in DOMAIN log :
        log[j].ev = "branch" =>
            log[j].taken = IF Truthy(log[j].value) THEN "then"
                           ELSE IF log[j].has_else THEN "else" ELSE "none"

\* C13: for every value v, !v is Bool(true) when v is Bool(false) or Nil and
\* Bool(false) for every other value (so that !!v is the truthiness of v).
C13_NotNegatesTruthiness ==
    \A j \in DOMAIN log :
        log[j].ev = "not" => log[j].result = Bool(~Truthy(log[j].operand))

\* the left operand decides the result of the logical operator op
Decides(op, left) == IF op = "Or" THEN Truthy(left) ELSE ~Truthy(left)

\* the evaluations of the right operand of the Logical entered at event enter
RightEvaluations(enter) ==
    {x \in DOMAIN log : log[x].ev = "right" /\ log[x].logical = enter}

\* C14: in `l or r` the right operand is never evaluated when l is truthy, and in
\* `l and r` never when l is falsy; otherwise r is evaluated exactly once, after l,
\* and the result is the Bool that is the truthiness of the operand that decided.
C14_ShortCircuit ==
    /\ \A x \in DOMAIN log :
          log[x].ev = "right" => ~Decides(log[x].op, log[x].left)
    /\ \A j \in DOMAIN log :
          log[j].ev = "logical_exit" =>
              IF Decides(log[j].op, log[j].left)
              THEN /\ RightEvaluations(log[j].logical) = {}
                   /\ log[j].result = Bool(Truthy(log[j].left))
              ELSE /\ Cardinality(RightEvaluations(log[j].logical)) = 1
                   /\ \A x \in RightEvaluations(log[j].logical) :
                          log[j].logical < x /\ x < j
                   /\ log[j].result = Bool(Truthy(log[j].right))

\* C14 witness: an `or` decided by its truthy left operand and an `and` decided by
\* its right operand have been evaluated, and the assignment in the right operand of
\* the first has not happened
C14_Witness ==
    /\ \E j \in DOMAIN log :
          /\ log[j].ev = "logical_exit" /\ log[j].op = "Or"
          /\ Truthy(log[j].left) /\ log[j].result = Bool(TRUE)
    /\ \E j \in DOMAIN log :
          /\ log[j].ev = "logical_exit" /\ log[j].op = "And"
          /\ Truthy(log[j].left) /\ log[j].result = Bool(FALSE)
          /\ RightEvaluations(log[j].logical) # {}
    /\ stdout = <<"true", "false", "0", "true", "false", "nil">>

\* C15: a call succeeds only if the number of its argument expressions equals the
\* arity of the callable.  With any other number it fails with a runtime error
\* raised right after the callee is known: no argument is evaluated, no frame is
\* pushed, the body does not run and the environment is left as it was.
C15_ArityChecked ==
    \A j \in DOMAIN log :
        log[j].ev = "called" =>
            LET noted == log[log[j].call] IN
            IF noted.num_args = noted.arity
            THEN log[j].tag = "Err" => log[j - 1].ev # "raise"
                                       \/ log[j - 1].msg # "wrong number of arguments"
            ELSE /\ log[j].tag = "Err"
                 /\ j = log[j].call + 2
                 /\ log[j - 1] = [ev |-> "raise", msg |-> "wrong number of arguments"]
                 /\ log[j].after = log[j].before

\* C15 witness: calls with too many and with too few arguments have failed, the
\* assignments in their arguments have not happened, and a call with the right
\* number has run the body
C15_Witness ==
    /\ \E j \in DOMAIN log :
          /\ log[j].ev = "called" /\ log[j].tag = "Err"
          /\ log[log[j].call].num_args > log[log[j].call].arity
    /\ \E j \in DOMAIN log :
          /\ log[j].ev = "called" /\ log[j].tag = "Err"
          /\ log[log[j].call].num_args < log[log[j].call].arity
    /\ stdout = <<"0", "3", "3">>

\* the evaluation unit of this step has reported a parse error
ParseErrorReported ==
    /\ Len(stderr') > Len(stderr)
    /\ stderr'[Len(stderr')].kind = "parse error"

\* C16: if parsing a program reports a parse error, no statement of the program is
\* evaluated: the statements that parsed before the error produce no output and no
\* change of the environment.
C16_ParseErrorRunsNothing ==
    [][ParseErrorReported => (env' = env /\ stdout' = stdout /\ log' = <<>>)]_vars

\* C16 witness: a source whose first statements parse and print or define, and
\* which has a parse error after them, has run: there is no output and the
\* environment is the initial one
C16_Witness ==
    /\ mode = "file"
    /\ status = "exited"
    /\ \E i \in 2..Len(input) :
          /\ StartsAtTopLevel(input, i)
          /\ parse(Parser_new(scan_tokens(SubSeq(input, 1, i - 1)))).ok
          /\ \E x \in 1..(i - 1) : input[x] \in {"var", "print"}
    /\ stderr # <<>>
    /\ stderr[Len(stderr)].kind = "parse error"
    /\ stdout = <<>>
    /\ env = Environment_new
    /\ log = <<>>

\* the statements of src at top level that are parse errors by themselves: a break
\* or a continue outside every loop
TopLevelErrors(src) == {i \in Stray(src) : StartsAtTopLevel(src, i)}

\* the number of parse errors on the error stream err
ParseErrors(err) == Cardinality({j \in DOMAIN err : err[j].kind = "parse error"})

\* C17: after a parse error the parser records it, skips to the next
\* synchronization point and resumes parsing: a source with parse errors in two
\* separate statements reports both of them in one run.
C17_BothErrorsReported ==
    [][Cardinality(TopLevelErrors(input')) >= 2 =>
          ParseErrors(stderr') >= ParseErrors(stderr) + 2]_vars

\* the line of the character i of src, counted from 1
LineAt(src, i) == 1 + Cardinality({x \in 1..(i - 1) : src[x] = "\n"})

\* the column of the character i of src, counted from 1 after the last newline
\* before it
ColAt(src, i) == i - Max({0} \cup {x \in 1..(i - 1) : src[x] = "\n"})

Eofs(tokens) == {i \in DOMAIN tokens : tokens[i].type = "Eof"}

\* C18: for any source, scan_tokens either succeeds with a token list that has
\* exactly one EOF token, the last one, at the position one past the final
\* character of the source, or stops with a scan error that carries a line and a
\* column, and then no EOF token is produced; it ends in no other way.
C18_ScanEndsWithEof ==
    /\ scanned.tag \in {"scanning", "Ok", "Err"}
    /\ scanned.tag = "scanning" => Eofs(scanner.tokens) = {}
    /\ scanned.tag = "Ok" =>
          /\ Eofs(scanner.tokens) = {Len(scanner.tokens)}
          /\ scanner.tokens[Len(scanner.tokens)].col =
                 ColAt(scanner.source, Len(scanner.source) + 1)
          /\ scanner.tokens[Len(scanner.tokens)].line =
                 LineAt(scanner.source, Len(scanner.source) + 1)
    /\ scanned.tag = "Err" =>
          /\ Eofs(scanner.tokens) = {}
          /\ scanned.err.line >= 1
          /\ scanned.err.col >= 1

\* C19: every token reports the 1-based line and column of the first character of
\* its lexeme, on any line of the source, also a string literal with embedded
\* newlines.
C19_TokenPositions ==
    \A i \in DOMAIN scanner.tokens :
        /\ scanner.tokens[i].line = LineAt(scanner.source, scanner.tokens[i].first)
        /\ scanner.tokens[i].col = ColAt(scanner.source, scanner.tokens[i].first)

\* the kinds of the errors written to the error stream
ErrorKinds == {stderr[j].kind : j \in DOMAIN stderr}

\* C20: when a program is run from a file or with -c, any error makes the process
\* exit with a non-zero status: 65 for a scan error and for a parse error, a
\* non-zero status for a runtime error.
C20_ErrorsExitNonZero ==
    (mode = "file" /\ status = "exited" /\ ErrorKinds # {}) =>
        /\ exit_code # 0
        /\ ErrorKinds \cap {"scan error", "parse error"} # {} => exit_code = 65

\* the frames of the stack e that hold name
Holding(e, name) == {f \in DOMAIN e : name \in DOMAIN e[f]}

\* C21: reading a name declared without initializer and not assigned since fails
\* with the "used uninitialized" runtime error, reading a name that no frame declares
\* fails with the distinct "not defined" runtime error, and after an assignment to a
\* declared name a read returns the assigned value.
C21_ReadOutcomes ==
    \A j \in DOMAIN log :
        /\ (log[j].ev = "declare" /\ log[j].initializer = None) =>
              /\ Holding(log[j].after, log[j].name) # {}
              /\ Max(Holding(log[j].after, log[j].name)) = Len(log[j].after)
              /\ log[j].after[Len(log[j].after)][log[j].name] = None
        /\ log[j].ev = "update" =>
              /\ Holding(log[j].after, log[j].name) # {}
              /\ log[j].after[Max(Holding(log[j].after, log[j].name))][log[j].name] =
                     log[j].value
        /\ log[j].ev = "read" =>
              IF Holding(log[j].env, log[j].name) = {}
              THEN log[j].tag = "Err" /\ log[j].msg = "name is not defined"
              ELSE IF log[j].env[Max(Holding(log[j].env, log[j].name))][log[j].name] = None
              THEN log[j].tag = "Err" /\ log[j].msg = "variable used uninitialized"
              ELSE /\ log[j].tag = "Ok"
                   /\ log[j].v = log[j].env[Max(Holding(log[j].env, log[j].name))][log[j].name]

\* C21 witness: a name declared without initializer has been read, assigned and read
\* again, a name that no frame declares has been read, and a name declared without
\* initializer in a block has been read while an outer frame holds a value for it
C21_Witness ==
    /\ stdout = <<"5">>
    /\ stderr = <<[kind |-> "runtime error", message |-> "variable used uninitialized"],
                  [kind |-> "runtime error", message |-> "name is not defined"],
                  [kind |-> "runtime error", message |-> "variable used uninitialized"]>>
    /\ \E j \in DOMAIN log :
          /\ log[j].ev = "read" /\ log[j].tag = "Err" /\ Len(log[j].env) = 2
          /\ Cardinality(Holding(log[j].env, log[j].name)) = 2

\* C22: an assignment updates the slot of the name only in the innermost frame that
\* holds it and leaves every other frame, and every other slot, as it was; when no
\* frame holds the name it fails with a runtime error and leaves the whole
\* environment as it was: no slot is created in any frame.
C22_AssignInnermost ==
    \A j \in DOMAIN log :
        /\ log[j].ev = "update" =>
              /\ Holding(log[j].before, log[j].name) # {}
              /\ Len(log[j].after) = Len(log[j].before)
              /\ \A f \in DOMAIN log[j].before :
                    log[j].after[f] =
                        IF f = Max(Holding(log[j].before, log[j].name))
                        THEN [log[j].before[f] EXCEPT ![log[j].name] = log[j].value]
                        ELSE log[j].before[f]
        /\ log[j].ev = "update_failed" =>
              /\ Holding(log[j].before, log[j].name) = {}
              /\ log[j].after = log[j].before
              /\ j < Len(log)
              /\ log[j + 1] = [ev |-> "raise", msg |-> "name is not defined"]

\* C22 witness: an assignment in a block has stored into the middle one of three
\* frames, of which the outermost holds the name too, and an assignment to a name
\* that no frame holds has failed
C22_Witness ==
    /\ \E j \in DOMAIN log :
          /\ log[j].ev = "update"
          /\ Len(log[j].before) = 3
          /\ Holding(log[j].before, log[j].name) = {1, 2}
          /\ log[j].after[1] = log[j].before[1]
          /\ log[j].after[2] # log[j].before[2]
    /\ \E j \in DOMAIN log : log[j].ev = "update_failed"
    /\ stdout = <<"3", "3", "1">>

\* C23: for any two runtime values a and b, a == b has the same result as b == a,
\* a != b is the negation of a == b, and two values of different variants are never
\* equal.
C23_EqualitySymmetric ==
    \A i, j \in DOMAIN log :
        /\ log[i].tag = "Ok" /\ log[i].v.t = "Bool"
        /\ (log[i].op = "EqualEqual" /\ log[i].left.t # log[i].right.t) => ~log[i].v.b
        /\ (/\ log[i].op = "EqualEqual" /\ log[j].op = "EqualEqual"
            /\ log[i].left = log[j].right /\ log[i].right = log[j].left) =>
               log[i].v = log[j].v
        /\ (/\ log[i].op = "EqualEqual" /\ log[j].op = "BangEqual"
            /\ log[i].left = log[j].left /\ log[i].right = log[j].right) =>
               log[j].v = Bool(~log[i].v.b)

\* C23 witness: a number and a string that print alike have been compared with ==
\* and != in both orders
C23_Witness ==
    /\ input = <<Number(0), Str("0")>>
    /\ Len(log) = 4
    /\ \A j \in DOMAIN log : log[j].v = Bool(log[j].op = "BangEqual")

\* the number of parameters or arguments of the source src
Listing(src) == Cardinality({i \in DOMAIN src : src[i] \in {"a", "1"}})

\* C24: the parser accepts a function declaration with up to 255 parameters and a
\* call with up to 255 arguments, 255 included, and rejects with a parse error a
\* declaration with 256 or more parameters and a call with 256 or more arguments.
C24_Limit255 ==
    (log # <<>> /\ input[1] \in {"fun", "f"} /\ Listing(input) > 0) =>
        IF Listing(input) <= 255
        THEN /\ log[1].ok
             /\ Len(log[1].statements) = 1
             /\ IF input[1] = "fun"
                THEN log[1].statements[1] =
                         StmtFunction("f", [i \in 1..Listing(input) |-> "a"], <<>>)
                ELSE Len(log[1].statements[1].e.arguments) = Listing(input)
        ELSE /\ ~log[1].ok
             /\ log[1].message = IF input[1] = "fun"
                                 THEN "cannot have more than 255 parameters"
                                 ELSE "cannot have more than 255 arguments"

\* the events named ev that belong to the call noted at event c
OfCall(c, ev) == {x \in DOMAIN log : log[x].ev = ev /\ log[x].call = c}

\* C25: a call is evaluated in this order: the callee expression, the check of the
\* arity, then the arguments from left to right; evaluation stops at the first
\* argument that fails: no argument to its right is evaluated and the callable is
\* not invoked.  The callable is invoked once, after the last argument, when no
\* argument fails.
C25_CallOrder ==
    \A j \in DOMAIN log :
        log[j].ev = "called" =>
            LET c == log[j].call
                started == OfCall(c, "argument")
                ended == OfCall(c, "argument_exit")
                failed == {x \in ended : log[x].tag # "Ok"}
            IN /\ c > 1 /\ log[c - 1].ev = "read" /\ log[c - 1].tag = "Ok"
               /\ log[c].num_args # log[c].arity => started = {}
               /\ \A x \in started : c < x /\ x < j
               /\ \A x \in started :
                     log[x].index = Cardinality({y \in started : y <= x})
               /\ \A x \in started : log[x].index <= log[c].num_args
               /\ \A x \in failed :
                     /\ \A y \in started : y < x
                     /\ OfCall(c, "invoke") = {}
                     /\ log[j].tag = log[x].tag
               /\ (failed = {} /\ log[c].num_args = log[c].arity) =>
                     /\ Cardinality(started) = log[c].num_args
                     /\ Cardinality(OfCall(c, "invoke")) = 1
                     /\ \A x \in ended : \A y \in OfCall(c, "invoke") : x < y /\ y < j

\* C25 witness: in a call of three arguments the second one has failed after the
\* first was evaluated: the third was not evaluated and the function was not
\* invoked; and another call has been invoked after its three arguments
C25_Witness ==
    /\ \E j \in DOMAIN log :
          /\ log[j].ev = "called" /\ log[j].tag = "Err"
          /\ Cardinality(OfCall(log[j].call, "argument")) = 2
          /\ log[log[j].call].num_args = 3
          /\ log[log[j].call].arity = 3
    /\ \E j \in DOMAIN log :
          /\ log[j].ev = "called" /\ log[j].tag = "Ok"
          /\ Cardinality(OfCall(log[j].call, "argument")) = 3
    /\ stdout = <<"1", "3", "4", "4">>

\* the calls that e nests in its callee
RECURSIVE Calls(_)
Calls(e) == IF e.k = "Call" THEN 1 + Calls(e.callee) ELSE 0

\* C26: the parser accepts any number of consecutive argument lists after a primary
\* expression (f(a)(b), f()()()) and builds Call nodes nested left to right: the
\* callee of each later call is the call before it.
C26_ChainedCalls ==
    (log # <<>> /\ \E i \in DOMAIN input : input[i] = ")" /\ input[i + 1] = "(") =>
        /\ log[1].ok
        /\ Len(log[1].statements) = 1
        /\ log[1].statements[1].k = "Expr"
        /\ Calls(log[1].statements[1].e) = Count(input, Len(input), "(")

\* the index in src of the n-th lexeme equal to lexeme
Nth(src, lexeme, n) ==
    CHOOSE i \in DOMAIN src : src[i] = lexeme /\ Count(src, i, lexeme) = n - 1

\* the statements of the tokens src, and the expression of the tokens src
Statements(src) == parse(Parser_new(scan_tokens(src))).val

ExpressionOf(src) == Statements(src \o <<";">>)[1].e

\* the clauses of the for statement src, whose clauses hold no parenthesis: the
\* initializer with its semicolon, the condition, the increment and the body
ForInitializer(src) == SubSeq(src, 3, Nth(src, ";", 1))

ForCondition(src) == SubSeq(src, Nth(src, ";", 1) + 1, Nth(src, ";", 2) - 1)

ForIncrement(src) == SubSeq(src, Nth(src, ";", 2) + 1, Nth(src, ")", 1) - 1)

ForStatement(src) == SubSeq(src, Nth(src, ")", 1) + 1, Len(src))

\* C27: a for statement parses with each of the three forms of initializer (a
\* variable declaration, an expression statement, a lone semicolon) and desugars to
\* the block { init?; while (cond) { body; inc?; } }, in which a missing condition
\* is the literal true and the initializer is the statement of all its tokens.
C27_ForDesugars ==
    (log # <<>> /\ input[1] = "for") =>
        /\ log[1].ok
        /\ Len(log[1].statements) = 1
        /\ log[1].statements[1].k = "Block"
        /\ LET stmts == log[1].statements[1].stmts
               loop == stmts[Len(stmts)]
           IN /\ SubSeq(stmts, 1, Len(stmts) - 1) =
                     IF ForInitializer(input) = <<";">> THEN <<>>
                     ELSE Statements(ForInitializer(input))
              /\ loop.k = "While"
              /\ loop.condition = IF ForCondition(input) = <<>> THEN Literal(Bool(TRUE))
                                  ELSE ExpressionOf(ForCondition(input))
              /\ loop.body =
                     StmtBlock(Statements(ForStatement(input))
                               \o IF ForIncrement(input) = <<>> THEN <<>>
                                  ELSE <<StmtExpr(ExpressionOf(ForIncrement(input)))>>)

\* the character that scan_token took last: the one at index current of the source
Offending == scanner.current

\* C28: the scan error of an unexpected character carries the 1-based line and
\* column of that character, and the token list holds no token for that character or
\* for any character after it.
C28_ErrorPosition ==
    (scanned.tag = "Err" /\ scanned.err.type = "UnexpectedCharacter") =>
        /\ scanner.source[Offending] = "@"
        /\ scanned.err.line = LineAt(scanner.source, Offending)
        /\ scanned.err.col = ColAt(scanner.source, Offending)
        /\ \A i \in DOMAIN scanner.tokens :
              scanner.tokens[i].first + Len(scanner.tokens[i].lexeme) <= Offending

\* the calls of a built-in other than exit and quit, in the history
BuiltinCalls == {j \in DOMAIN log : log[j].ev = "builtin" /\ log[j].name \notin {"exit", "quit"}}

\* C29: a call of a built-in other than exit and quit with the right number of
\* arguments ends with a value or with a runtime error, whatever the values of the
\* arguments: it never aborts the interpreter, also round with a precision of 10 or
\* more or a negative precision, and randint with a low bound above the high bound.
C29_BuiltinsNeverAbort == \A j \in BuiltinCalls : log[j].tag \in {"Ok", "Err"}

\* the reads of the body of a call: the pairs <<c, j>> of a read j and the innermost
\* call c that is open when j happens
BodyReads ==
    {<<c, j>> \in (DOMAIN log) \X (DOMAIN log) :
        /\ log[j].ev = "read"
        /\ OpenCalls(j) # {}
        /\ c = Max(OpenCalls(j))}

\* the frames of the stack e above the first depth frames that hold name
Above(e, depth, name) == {f \in Holding(e, name) : f > depth}

\* C30: a name that is free in a function body resolves against the environment
\* stack as it is when the function is called: below the frames of the activation
\* the body finds the frames of its caller, and the read gives the value of the
\* innermost of them that holds the name, whatever the scope where the function was
\* declared; when none of them holds the name the read fails with "not defined",
\* also when the scope that declared the function held it and has been popped.
C30_DynamicResolution ==
    \A p \in BodyReads :
        LET caller == log[p[1]].env
            read == log[p[2]]
        IN /\ Len(read.env) > Len(caller)
           /\ \A f \in DOMAIN caller : DOMAIN read.env[f] = DOMAIN caller[f]
           /\ Above(read.env, Len(caller), read.name) = {} =>
                 IF Holding(caller, read.name) = {}
                 THEN read.tag = "Err" /\ read.msg = "name is not defined"
                 ELSE LET slot == read.env[Max(Holding(caller, read.name))][read.name] IN
                      IF slot = None
                      THEN read.tag = "Err" /\ read.msg = "variable used uninitialized"
                      ELSE read.tag = "Ok" /\ read.v = slot

\* C30 witness: a function declared in a block that held y, kept in the global h, has
\* been called after the block was popped, and the read of y failed; called from a
\* function with a local y and from a block nested in a block that both declare y, it
\* has read the y of its caller, the innermost one
C30_Witness ==
    /\ stdout = <<"2", "4">>
    /\ stderr = <<[kind |-> "runtime error", message |-> "name is not defined"]>>
    /\ \E p \in BodyReads :
          /\ log[p[1]].name = "g"
          /\ log[p[2]].name = "y"
          /\ Cardinality(Holding(log[p[1]].env, "y")) = 2
          /\ log[p[2]].v = Number(4)
====
